---- MODULE Spec2Model ----
(***************************************************************************)
(* NyayaAI annotation buffer and analysis pipeline.                        *)
(*                                                                         *)
(* The rendered markdown document is a sequence of tokens.  A token is a   *)
(* maximal piece of text that the regular expressions of the agents treat  *)
(* as a unit: one decimal digit of a clause ordinal, the ". " that follows *)
(* an ordinal, the paragraph break, the document separator, a placeholder  *)
(* marker, a risk / citation / suggestion marker, or an opaque run of      *)
(* clause or oracle text.  Python's re.sub is modelled on token sequences: *)
(* leftmost match, lazy wildcards, replacement built from the match.       *)
(***************************************************************************)
EXTENDS Integers, Naturals, Sequences, FiniteSets

VARIABLES
    clauses,           \* state["clauses"]: the segmenter's clause list
    markdown_file,     \* contents of the file at state["markdown_path"]
    markdown_content,  \* the local markdown_content of the running stage
    risk_outputs,      \* risk_outputs of process_all_clauses, in clause order
    node,              \* the workflow node that runs next
    i,                 \* loop index of the running stage over clauses
    prev_markdown,     \* history: the buffer the pipeline's last layer operation read
    last_op,           \* history: the pipeline's last layer operation and its arguments
    nops,              \* number of layer operations applied directly
    full_text,         \* identify_clauses: the normalized text of the pages
    error,             \* state["error"]
    stage,             \* state["stage"]
    classified,        \* state["classified"]
    executed,          \* history: the workflow nodes in the order they were run
    first_error,       \* history: the error the first failing node recorded
    log,               \* the logger.error records of the agents, in order
    config,            \* retry wrapper: the arguments of the decorator
    responses,         \* retry wrapper: history, the exceptions func has raised
    attempt,           \* retry wrapper: loop variable of the for loop
    delay,             \* retry wrapper: delay
    sleeps,            \* retry wrapper: the arguments of time.sleep, in order
    calls,             \* retry wrapper: number of invocations of func
    result,            \* retry wrapper: what the wrapper returned or raised
    oracle,            \* retrieve_citation: the outcome of the last oracle call
    scored,            \* risk engine: the clauses scored so far, in call order
    summary,           \* risk engine: outcome of compute_contract_risk_score
    args,              \* main: the command line and the environment
    exit_code,         \* main: the exit status of the process, -1 while it runs
    report             \* main: the files save_outputs has written

seg_vars == <<full_text>>
run_vars == <<error, stage, classified, executed, first_error, log>>
retry_vars == <<config, responses, attempt, delay, sleeps, calls, result>>
cite_vars == <<oracle>>
score_vars == <<scored, summary>>
batch_vars == <<args, exit_code, report>>

vars == <<clauses, markdown_file, markdown_content, risk_outputs, node, i,
          prev_markdown, last_op, nops, seg_vars, run_vars, retry_vars, cite_vars, score_vars, batch_vars>>

\* The parts of the state an execution does not touch stay as constructed.
NoSegmenter == full_text = <<>>
NoRun ==
    /\ error = "None"
    /\ stage = "initialized"
    /\ classified = <<>>
    /\ executed = <<>>
    /\ first_error = "None"
    /\ log = <<>>
NoException ==
    [msg |-> "", code_429 |-> FALSE, quota |-> FALSE, rate_limit |-> FALSE, retry_in |-> 0]
NoResult == [status |-> "none", exception |-> NoException]
\* @retry_with_exponential_backoff(max_retries=3, initial_delay=2.0, max_delay=60.0)
DefaultConfig ==
    [max_retries |-> 3, initial_delay |-> 2, max_delay |-> 60, exponential_base |-> 2]
NoRetry ==
    /\ config = DefaultConfig
    /\ responses = <<>>
    /\ attempt = 0
    /\ delay = 0
    /\ sleeps = <<>>
    /\ calls = 0
    /\ result = NoResult
\* A JSON object without keys, and an oracle that has not been called.
NoDict == [k \in {} |-> ""]
NoOracle == [raises |-> "not called", value |-> NoDict]
NoCitation == oracle = NoOracle
NoSummary ==
    [status |-> "none", overall_risk_score |-> 0, most_critical_clause |-> "",
     high_count |-> 0, medium_count |-> 0, total_count |-> 0,
     risky_sum |-> 0, risky_len |-> 0]
NoScoring ==
    /\ scored = <<>>
    /\ summary = NoSummary
NoArgs == [pdf_exists |-> TRUE, suffix |-> ".pdf", api_key |-> ""]
NoBatch ==
    /\ args = NoArgs
    /\ exit_code = -1
    /\ report = <<>>

(***************************************************************************)
(* Bounds of the model.                                                    *)
(***************************************************************************)
MaxClauses == 2
MaxOps == 3
MaxTextLen == 6
MaxScored == 2

(***************************************************************************)
(* Markup vocabulary.                                                      *)
(***************************************************************************)
SEP == "---\n\n"
NL == "\n\n"
DOT == ". "
IPC == "-ipc-"
SG == "-sg-"
RiskTagClass == {"-hr-", "-mr-", "-lr-"}
RiskLevel == {"High", "Medium", "Low"}

Min(S) == CHOOSE x \in S : \A y \in S : x <= y

\* schemas.models.Clause ids the model draws documents from.
NumberedIds == {"clause_1", "clause_2", "clause_11"}
AllClauseIds == NumberedIds \cup {"clause_preamble"}

\* clause_id.replace("clause_", ""), as the characters of the ordinal.
ClauseNum(clause_id) ==
    CASE clause_id = "clause_1" -> <<"1">>
      [] clause_id = "clause_2" -> <<"2">>
      [] clause_id = "clause_11" -> <<"1", "1">>
      [] clause_id = "clause_12" -> <<"1", "2">>
      [] clause_id = "clause_21" -> <<"2", "1">>
      [] clause_id = "clause_22" -> <<"2", "2">>
      [] OTHER -> <<"preamble">>

\* The text of a clause, as the segmenter stored it (Clause.content).
ClauseContent(clause_id) ==
    CASE clause_id = "clause_preamble" -> <<"This agreement is made between the parties">>
      [] clause_id = "clause_2" -> <<"The Company may terminate", "at its sole discretion">>
      [] OTHER -> <<"Payment is due in 30 days">>

MakeClause(clause_id) == [clause_id |-> clause_id, content |-> ClauseContent(clause_id)]

\* Sequences over S of length at most n.
RECURSIVE SeqsUpTo(_, _)
SeqsUpTo(S, n) ==
    IF n = 0 THEN {<<>>}
    ELSE LET shorter == SeqsUpTo(S, n - 1)
         IN shorter \cup {Append(q, x) : q \in shorter, x \in S}

\* The clause lists identify_clauses can hand over: an optional preamble, then
\* clause_1 (the text is cut at the first "1. "), then one clause per further
\* ordinal marker of the text, whatever its number: an ordinal that occurs
\* again in the text yields the same clause_id again.
DocumentIds ==
    {<<"clause_1">> \o tail : tail \in SeqsUpTo(NumberedIds, MaxClauses - 1)}
    \cup {<<"clause_preamble", "clause_1">> \o tail :
             tail \in SeqsUpTo(NumberedIds, MaxClauses - 2)}

Documents == {[k \in 1..Len(ids) |-> MakeClause(ids[k])] : ids \in DocumentIds}

(***************************************************************************)
(* pdf_to_markdown.generate_markdown                                       *)
(***************************************************************************)
OpenPlaceholder(clause_id) == "{{CLAUSE_" \o clause_id \o "}}"
ClosePlaceholder(clause_id) == "{{/CLAUSE_" \o clause_id \o "}}"

\* A render that leaves the closing placeholder out.
RenderClauseUnclosed(clause) ==
    IF clause.clause_id = "clause_preamble"
    THEN <<OpenPlaceholder(clause.clause_id)>> \o clause.content \o <<NL>>
    ELSE ClauseNum(clause.clause_id) \o <<DOT, OpenPlaceholder(clause.clause_id)>>
         \o clause.content \o <<NL>>

RenderClause(clause) ==
    IF clause.clause_id = "clause_preamble"
    THEN <<OpenPlaceholder(clause.clause_id)>> \o clause.content
         \o <<ClosePlaceholder(clause.clause_id), NL>>
    ELSE ClauseNum(clause.clause_id) \o <<DOT, OpenPlaceholder(clause.clause_id)>>
         \o clause.content \o <<ClosePlaceholder(clause.clause_id), NL>>

MarkdownHeader == <<"# Contract Document\n\n", "*Generated by NyayaAI*\n\n", SEP>>

RECURSIVE RenderClauses(_, _)
RenderClauses(cl, k) ==
    IF k > Len(cl) THEN <<>> ELSE RenderClause(cl[k]) \o RenderClauses(cl, k + 1)

GenerateMarkdown(cl) == MarkdownHeader \o RenderClauses(cl, 1)

(***************************************************************************)
(* re.sub on token sequences.  A pattern is a sequence of blocks joined by *)
(* the lazy wildcard .*? (DOTALL); a block is a sequence of token classes. *)
(***************************************************************************)
Lit(s) == [k \in 1..Len(s) |-> {s[k]}]

MatchAt(s, blk, p) ==
    /\ p + Len(blk) - 1 <= Len(s)
    /\ \A k \in 1..Len(blk) : s[p + k - 1] \in blk[k]

\* Index of the last token matched by blocks b.. of pat when block b may start
\* at p or later, each wildcard as short as backtracking allows; 0 if no match.
RECURSIVE LazyEnd(_, _, _, _)
LazyEnd(s, pat, b, p) ==
    IF b > Len(pat) THEN p - 1
    ELSE LET ok == {q \in p..Len(s) :
                      /\ MatchAt(s, pat[b], q)
                      /\ LazyEnd(s, pat, b + 1, q + Len(pat[b])) # 0}
         IN IF ok = {} THEN 0
            ELSE LazyEnd(s, pat, b + 1, Min(ok) + Len(pat[b]))

NoMatch == [start |-> 0, end |-> 0]

\* re.search from position from: the leftmost match.
ReSearch(s, pat, from) ==
    LET starts == {p \in from..Len(s) :
                     /\ MatchAt(s, pat[1], p)
                     /\ LazyEnd(s, pat, 2, p + Len(pat[1])) # 0}
    IN IF starts = {} THEN NoMatch
       ELSE [start |-> Min(starts),
             end |-> LazyEnd(s, pat, 2, Min(starts) + Len(pat[1]))]

InsertAt(s, pos, frag) == SubSeq(s, 1, pos) \o frag \o SubSeq(s, pos + 1, Len(s))

(***************************************************************************)
(* risk_detector.RiskDetectorAgent._tag_markdown                           *)
(***************************************************************************)
\* rf'\{\{CLAUSE_id\}\}(.*?)\{\{/CLAUSE_id\}\}'
PlaceholderPattern(clause_id) ==
    <<Lit(<<OpenPlaceholder(clause_id)>>), Lit(<<ClosePlaceholder(clause_id)>>)>>

RiskTag(risk_level) ==
    CASE risk_level = "High" -> "-hr-"
      [] risk_level = "Medium" -> "-mr-"
      [] OTHER -> "-lr-"

\* A replace_func that returns nothing for a clause without issues.
TagReplacementDroppingUntagged(content, risk_level, has_issues) ==
    IF has_issues
    THEN <<RiskTag(risk_level)>> \o content \o <<RiskTag(risk_level)>>
    ELSE <<>>

\* replace_func of _tag_markdown: group 1, wrapped in the level's tags or bare.
TagReplacement(content, risk_level, has_issues) ==
    IF has_issues
    THEN <<RiskTag(risk_level)>> \o content \o <<RiskTag(risk_level)>>
    ELSE content

\* re.sub without count: every non-overlapping match, left to right.
RECURSIVE TagFrom(_, _, _, _, _)
TagFrom(s, clause_id, risk_level, has_issues, from) ==
    LET m == ReSearch(s, PlaceholderPattern(clause_id), from)
    IN IF m.start = 0 THEN s
       ELSE LET repl == TagReplacement(SubSeq(s, m.start + 1, m.end - 1),
                                       risk_level, has_issues)
            IN TagFrom(SubSeq(s, 1, m.start - 1) \o repl \o SubSeq(s, m.end + 1, Len(s)),
                       clause_id, risk_level, has_issues, m.start + Len(repl))

\* A _tag_markdown that leaves the buffer alone for a clause without issues.
TagMarkdownOnlyWithIssues(s, clause_id, risk_level, has_issues) ==
    IF has_issues THEN TagFrom(s, clause_id, risk_level, has_issues, 1) ELSE s

TagMarkdown(s, clause_id, risk_level, has_issues) ==
    TagFrom(s, clause_id, risk_level, has_issues, 1)

(***************************************************************************)
(* legal_retriever.LegalRetrieverAgent._insert_citation_in_markdown        *)
(***************************************************************************)
\* schemas.models.Citation as retrieve_citation returns it.
FoundCitation(clause_id) ==
    [clause_id |-> clause_id, found |-> TRUE, section |-> "Section 27",
     law_name |-> "Indian Contract Act 1872",
     explanation |-> "Applies to " \o clause_id]
NotFoundCitation(clause_id) ==
    [clause_id |-> clause_id, found |-> FALSE, section |-> "None",
     law_name |-> "None", explanation |-> "None"]
Citations(clause_id) == {FoundCitation(clause_id), NotFoundCitation(clause_id)}

\* The JSON object the oracle answers with, as JsonOutputParser hands it to
\* retrieve_citation: any key of the prompt's format may be missing, and
\* section, law_name and explanation may be null.  The explanations are
\* shorter than the 200 characters retrieve_citation trims them to.
CitationKeys == {"clause_id", "section", "law_name", "explanation", "found"}
FullCitationResults(clause_id) ==
    [clause_id : {clause_id},
     section : {"Section 27", "null"},
     law_name : {"Indian Contract Act 1872", "null"},
     explanation : {"Applies to " \o clause_id},
     found : {"true", "false"}]
CitationResults(clause_id) ==
    {[key \in keys |-> full[key]] :
        keys \in SUBSET CitationKeys, full \in FullCitationResults(clause_id)}
FoundResult(clause_id) ==
    [clause_id |-> clause_id, section |-> "Section 27",
     law_name |-> "Indian Contract Act 1872",
     explanation |-> "Applies to " \o clause_id, found |-> "true"]

\* An Optional[str] = None field of Citation(**result), as an f-string prints it.
OptionalStr(json, key) ==
    IF key \notin DOMAIN json THEN "None"
    ELSE IF json[key] = "null" THEN "None" ELSE json[key]
\* found: bool = True
FoundFlag(json) ==
    IF "found" \notin DOMAIN json THEN TRUE ELSE json["found"] = "true"
\* A Citation whose found flag defaults to False.
CitationFoundDefaultsToFalse(json) ==
    [clause_id |-> json["clause_id"],
     found |-> IF "found" \notin DOMAIN json THEN FALSE ELSE json["found"] = "true",
     section |-> OptionalStr(json, "section"),
     law_name |-> OptionalStr(json, "law_name"),
     explanation |-> OptionalStr(json, "explanation")]
\* schemas.models.Citation(**result), for a json that has the required clause_id.
Citation(json) ==
    [clause_id |-> json["clause_id"], found |-> FoundFlag(json),
     section |-> OptionalStr(json, "section"),
     law_name |-> OptionalStr(json, "law_name"),
     explanation |-> OptionalStr(json, "explanation")]

CitationText(citation) ==
    IF citation.found
    THEN <<IPC, citation.section \o ", " \o citation.law_name \o ": "
                \o citation.explanation, IPC>>
    ELSE <<IPC, "not found", IPC>>

\* rf'(---\n\n)(.*?)(-[hlm]r-)(\n\n1\. )'
PreambleSuffix == Lit(<<NL, "1", DOT>>)
PreambleCitationPattern == <<Lit(<<SEP>>), <<RiskTagClass>> \o PreambleSuffix>>
\* rf'({clause_num}\. -[hlm]r-.*?-[hlm]r-)'
NumberedCitationPattern(clause_num) ==
    <<Lit(clause_num \o <<DOT>>) \o <<RiskTagClass>>, <<RiskTagClass>>>>

InsertCitationInMarkdown(s, clause_id, citation) ==
    LET clause_num == ClauseNum(clause_id)
        pre == clause_num = <<"preamble">>
        m == IF pre THEN ReSearch(s, PreambleCitationPattern, 1)
             ELSE ReSearch(s, NumberedCitationPattern(clause_num), 1)
    IN IF m.start = 0 THEN s
       ELSE InsertAt(s, IF pre THEN m.end - Len(PreambleSuffix) ELSE m.end,
                     CitationText(citation))

(***************************************************************************)
(* redline_generator.RedlineGeneratorAgent._insert_suggestion_in_markdown  *)
(***************************************************************************)
\* schemas.models.Redline.suggested_text: the oracle's rewrite, or the default
\* text generate_redline substitutes when the call or its validation fails.
DefaultSuggestion ==
    "Add balanced terms with mutual rights. Include notice periods (30-60 days) and liability caps. Clarify vague language."
Suggestions(clause_id) == {"Balanced rewrite of " \o clause_id, DefaultSuggestion}

SuggestionText(suggested_text) == <<SG, suggested_text, SG>>

\* rf'(---\n\n.*?-[hlm]r--ipc-.*?-ipc-)(\n\n1\. )'
PreambleSuggestionPattern ==
    <<Lit(<<SEP>>), <<RiskTagClass, {IPC}>>, <<{IPC}>> \o PreambleSuffix>>
\* rf'({clause_num}\. -[hlm]r-.*?-[hlm]r--ipc-.*?-ipc-)'
NumberedSuggestionPattern(clause_num) ==
    <<Lit(clause_num \o <<DOT>>) \o <<RiskTagClass>>, <<RiskTagClass, {IPC}>>, <<{IPC}>>>>

\* A suggestion insertion anchored on the risk tag alone, as the citation's is.
InsertSuggestionAfterRiskTag(s, clause_id, suggested_text) ==
    LET clause_num == ClauseNum(clause_id)
        pre == clause_num = <<"preamble">>
        m == IF pre THEN ReSearch(s, PreambleCitationPattern, 1)
             ELSE ReSearch(s, NumberedCitationPattern(clause_num), 1)
    IN IF m.start = 0 THEN s
       ELSE InsertAt(s, IF pre THEN m.end - Len(PreambleSuffix) ELSE m.end,
                     SuggestionText(suggested_text))

InsertSuggestionInMarkdown(s, clause_id, suggested_text) ==
    LET clause_num == ClauseNum(clause_id)
        pre == clause_num = <<"preamble">>
        m == IF pre THEN ReSearch(s, PreambleSuggestionPattern, 1)
             ELSE ReSearch(s, NumberedSuggestionPattern(clause_num), 1)
    IN IF m.start = 0 THEN s
       ELSE InsertAt(s, IF pre THEN m.end - Len(PreambleSuffix) ELSE m.end,
                     SuggestionText(suggested_text))

(***************************************************************************)
(* The layer operations as records, for the history variable last_op.      *)
(***************************************************************************)
NoOp == [op |-> "none", index |-> 0, clause_id |-> "", risk_level |-> "",
         issues |-> <<>>, text |-> <<>>]
RiskOp(index, clause_id, risk_level, issues) ==
    [op |-> "risk", index |-> index, clause_id |-> clause_id,
     risk_level |-> risk_level, issues |-> issues, text |-> <<>>]
CitationOp(index, clause_id, citation) ==
    [op |-> "citation", index |-> index, clause_id |-> clause_id, risk_level |-> "",
     issues |-> <<>>, text |-> CitationText(citation)]
SuggestionOp(index, clause_id, suggested_text) ==
    [op |-> "suggestion", index |-> index, clause_id |-> clause_id, risk_level |-> "",
     issues |-> <<>>, text |-> SuggestionText(suggested_text)]

(***************************************************************************)
(* The pipeline: orchestrator.workflow nodes over the agents' stage loops. *)
(***************************************************************************)
Init ==
    /\ clauses = <<>>
    /\ markdown_file = <<>>
    /\ markdown_content = <<>>
    /\ risk_outputs = <<>>
    /\ node = "pdf_to_markdown"
    /\ i = 1
    /\ prev_markdown = <<>>
    /\ last_op = NoOp
    /\ nops = 0
    /\ NoSegmenter /\ NoRun /\ NoRetry /\ NoCitation /\ NoScoring /\ NoBatch

\* _pdf_to_markdown_node: the segmenter's clauses, rendered and written.
PdfToMarkdown ==
    /\ node = "pdf_to_markdown"
    /\ \E doc \in Documents :
        /\ clauses' = doc
        /\ markdown_file' = GenerateMarkdown(doc)
    /\ node' = "detect_risks"
    /\ UNCHANGED <<markdown_content, risk_outputs, i, prev_markdown, last_op, nops>>
    /\ UNCHANGED <<seg_vars, run_vars, retry_vars, cite_vars, score_vars, batch_vars>>

\* The buffer a stage loop works on: read from the file before the first clause.
LoopBuffer == IF i = 1 THEN markdown_file ELSE markdown_content

\* What every stage loop does after a clause: next clause, or write and return.
LoopAdvance(new, next_node) ==
    /\ markdown_content' = new
    /\ IF i = Len(clauses)
       THEN /\ markdown_file' = new
            /\ node' = next_node
            /\ i' = 1
       ELSE /\ i' = i + 1
            /\ UNCHANGED <<markdown_file, node>>

\* schemas.models.RiskAssessment as detect_risk returns it: the oracle's level
\* and issue list, or Medium with no issues when the call or validation fails.
IssueLists == {<<>>, <<"Unilateral termination">>}
RiskAssessments(clause_id) ==
    {[clause_id |-> clause_id, risk_level |-> l, issues |-> iss] :
        l \in RiskLevel, iss \in IssueLists}

\* compute_and_tag_risk: has_issues = len(risk_assessment.issues) > 0
HasIssues(risk_assessment) == Len(risk_assessment.issues) > 0

\* process_all_clauses, one clause: detect_risk, then _tag_markdown.
DetectRisks ==
    /\ node = "detect_risks"
    /\ \E risk_assessment \in RiskAssessments(clauses[i].clause_id) :
        LET clause_id == clauses[i].clause_id
            risk_level == risk_assessment.risk_level
            has_issues == HasIssues(risk_assessment)
            new == TagMarkdown(LoopBuffer, clause_id, risk_level, has_issues)
        IN /\ LoopAdvance(new, "retrieve_legal")
           /\ risk_outputs' = Append(risk_outputs,
                  [clause_id |-> clause_id, risk_level |-> risk_level])
           /\ prev_markdown' = LoopBuffer
           /\ last_op' = RiskOp(i, clause_id, risk_level, risk_assessment.issues)
    /\ UNCHANGED <<clauses, nops, seg_vars, run_vars, retry_vars, cite_vars, score_vars, batch_vars>>

\* _detect_risks_node: risk_levels_dict = {r.clause_id: r.risk_level ...}; the
\* clause ids that have a risk level.
RiskLevelsDict == {risk_outputs[k].clause_id : k \in 1..Len(risk_outputs)}

\* citations of process_risk_tagged_markdown when its loop has ended, by clause
\* id: a record is appended for every clause with a level in risk_levels.
CitationRecords ==
    [k \in 1..Len(SelectSeq(clauses, LAMBDA c : c.clause_id \in RiskLevelsDict)) |->
        SelectSeq(clauses, LAMBDA c : c.clause_id \in RiskLevelsDict)[k].clause_id]

\* process_risk_tagged_markdown, one clause: a clause with a risk level gets a
\* citation (found, or not found also when the call fails) and an insertion
\* attempt; a clause without one is passed over.
RetrieveLegal ==
    /\ node = "retrieve_legal"
    /\ \E citation \in Citations(clauses[i].clause_id) :
        LET clause_id == clauses[i].clause_id
            new == IF clause_id \in RiskLevelsDict
                   THEN InsertCitationInMarkdown(LoopBuffer, clause_id, citation)
                   ELSE LoopBuffer
        IN /\ LoopAdvance(new, "generate_redlines")
           /\ prev_markdown' = LoopBuffer
           /\ last_op' = CitationOp(i, clause_id, citation)
    /\ UNCHANGED <<clauses, risk_outputs, nops, seg_vars, run_vars, retry_vars, cite_vars, score_vars, batch_vars>>

\* process_cited_markdown, one clause, under the same condition.
GenerateRedlines ==
    /\ node = "generate_redlines"
    /\ \E suggested_text \in Suggestions(clauses[i].clause_id) :
        LET clause_id == clauses[i].clause_id
            new == IF clause_id \in RiskLevelsDict
                   THEN InsertSuggestionInMarkdown(LoopBuffer, clause_id, suggested_text)
                   ELSE LoopBuffer
        IN /\ LoopAdvance(new, "generate_summary")
           /\ prev_markdown' = LoopBuffer
           /\ last_op' = SuggestionOp(i, clause_id, suggested_text)
    /\ UNCHANGED <<clauses, risk_outputs, nops, seg_vars, run_vars, retry_vars, cite_vars, score_vars, batch_vars>>

Next == PdfToMarkdown \/ DetectRisks \/ RetrieveLegal \/ GenerateRedlines

Spec == Init /\ [][Next]_vars

(***************************************************************************)
(* The three layer operations called directly, in any order, on any clause *)
(* id, on the buffer of a freshly rendered document.                       *)
(***************************************************************************)
InitOps ==
    /\ \E doc \in Documents :
        /\ clauses = doc
        /\ markdown_file = GenerateMarkdown(doc)
        /\ markdown_content = GenerateMarkdown(doc)
    /\ risk_outputs = <<>>
    /\ node = "operations"
    /\ i = 1
    /\ prev_markdown = <<>>
    /\ last_op = NoOp
    /\ nops = 0
    /\ NoSegmenter /\ NoRun /\ NoRetry /\ NoCitation /\ NoScoring /\ NoBatch

Applied(new) ==
    /\ nops < MaxOps
    /\ nops' = nops + 1
    /\ markdown_content' = new
    /\ UNCHANGED <<clauses, markdown_file, risk_outputs, node, i, prev_markdown, last_op>>
    /\ UNCHANGED <<seg_vars, run_vars, retry_vars, cite_vars, score_vars, batch_vars>>

ApplyTagMarkdown ==
    \E clause_id \in AllClauseIds :
        \E risk_assessment \in RiskAssessments(clause_id) :
            Applied(TagMarkdown(markdown_content, clause_id, risk_assessment.risk_level,
                                HasIssues(risk_assessment)))

ApplyInsertCitation ==
    \E clause_id \in AllClauseIds :
        \E citation \in Citations(clause_id) :
            Applied(InsertCitationInMarkdown(markdown_content, clause_id, citation))

ApplyInsertSuggestion ==
    \E clause_id \in AllClauseIds :
        \E suggested_text \in Suggestions(clause_id) :
            Applied(InsertSuggestionInMarkdown(markdown_content, clause_id, suggested_text))

NextOps == ApplyTagMarkdown \/ ApplyInsertCitation \/ ApplyInsertSuggestion

SpecOps == InitOps /\ [][NextOps]_vars

(***************************************************************************)
(* pdf_to_markdown.PDFToMarkdownConverter.identify_clauses, on the tokens  *)
(* of the normalized page text: a decimal digit, the ". " that can follow  *)
(* a number, and a run of words.  A run of words begins and ends with      *)
(* punctuation, so a number next to it is at a word boundary.              *)
(***************************************************************************)
Digits == {"1", "2"}
Words == "(a) The Company may terminate this agreement at its sole discretion;"
\* A run of words longer than half the limit on a clause's content.
RECURSIVE Repeat(_, _)
Repeat(w, n) == IF n = 0 THEN "" ELSE w \o Repeat(w, n - 1)
LongWords == Repeat(Words, 12)
TextTokens == Digits \cup {DOT, Words, LongWords}
\* A period and the whitespace after it, r'\.\s+': ". " inside the text, and
\* the period that ends the text with the paragraph break appended to it.
Stops == {DOT, ".\n\n"}

\* Index of the last digit of the run of digits that holds position p.
RECURSIVE RunEnd(_, _)
RunEnd(s, p) == IF p < Len(s) /\ s[p + 1] \in Digits THEN RunEnd(s, p + 1) ELSE p

\* r'\b(\d+)\.\s+' matches at p: a whole number, then ". ".
IsMarker(s, p) ==
    /\ s[p] \in Digits
    /\ (p = 1 \/ s[p - 1] \notin Digits)
    /\ RunEnd(s, p) < Len(s)
    /\ s[RunEnd(s, p) + 1] \in Stops

MarkerPositions(s) == {p \in 1..Len(s) : IsMarker(s, p)}

\* The page texts the extractor can hand over: not empty, and no number of
\* more than two digits.
PageTexts ==
    {t \in SeqsUpTo(TextTokens, MaxTextLen) :
        /\ t # <<>>
        /\ \A p \in 1..Len(t) : t[p] \in Digits => RunEnd(t, p) - p <= 1}

RECURSIVE Join(_)
Join(s) == IF s = <<>> THEN "" ELSE Head(s) \o Join(Tail(s))

\* str.strip(): the paragraph breaks at the end go, and so does the whitespace
\* after a final period.
RECURSIVE Strip(_)
Strip(s) ==
    IF s = <<>> THEN <<>>
    ELSE IF s[Len(s)] = NL THEN Strip(SubSeq(s, 1, Len(s) - 1))
    ELSE IF s[Len(s)] \in Stops THEN SubSeq(s, 1, Len(s) - 1) \o <<".">>
    ELSE s

\* full_text for one page: text.strip() + "\n\n"
FullText(text) ==
    IF text[Len(text)] = DOT
    THEN SubSeq(text, 1, Len(text) - 1) \o <<".\n\n">>
    ELSE text \o <<NL>>

\* s[:n] on the characters of the text: whole tokens while they fit, then the
\* characters of the next token that still do.
RECURSIVE Cap(_, _)
Cap(s, n) ==
    IF s = <<>> \/ n = 0 THEN <<>>
    ELSE IF Len(Head(s)) <= n THEN <<Head(s)>> \o Cap(Tail(s), n - Len(Head(s)))
    ELSE <<SubSeq(Head(s), 1, n)>>

\* clause_content[:1500] + "..." for a content of more than 1500 characters
LimitContent(clause_content) ==
    IF Len(Join(clause_content)) > 1500
    THEN Cap(clause_content, 1500) \o <<"...">>
    ELSE clause_content

\* re.search(r'\b1\.\s+', full_text): the first marker whose number is 1.
FirstClauseMatch(s) ==
    LET ones == {p \in MarkerPositions(s) : RunEnd(s, p) = p /\ s[p] = "1"}
    IN IF ones = {} THEN 0 ELSE Min(ones)

\* The loop over clause_splits: one clause per marker, in text order, with the
\* text up to the next marker as content; a clause without content is skipped.
RECURSIVE SplitClauses(_, _)
SplitClauses(s, ms) ==
    IF ms = {} THEN <<>>
    ELSE LET p == Min(ms)
             rest == ms \ {p}
             stop == IF rest = {} THEN Len(s) ELSE Min(rest) - 1
             clause_num == SubSeq(s, p, RunEnd(s, p))
             clause_content == Strip(SubSeq(s, RunEnd(s, p) + 2, stop))
         IN (IF clause_content = <<>> THEN <<>>
             ELSE <<[clause_id |-> "clause_" \o Join(clause_num),
                     content |-> LimitContent(clause_content)]>>)
            \o SplitClauses(s, rest)

\* An identify_clauses whose fallback clause holds the text without a limit.
IdentifyClausesUncapped(s) ==
    LET first == FirstClauseMatch(s)
        preamble_text == IF first = 0 THEN <<>> ELSE Strip(SubSeq(s, 1, first - 1))
        preamble == IF preamble_text # <<>> /\ Len(Join(preamble_text)) > 50
                    THEN <<[clause_id |-> "clause_preamble",
                            content |-> Cap(preamble_text, 2000)]>>
                    ELSE <<>>
        remainder_text == IF first = 0 THEN s ELSE SubSeq(s, first, Len(s))
        found == preamble \o SplitClauses(remainder_text, MarkerPositions(remainder_text))
    IN IF found = <<>>
       THEN <<[clause_id |-> "clause_1", content |-> s]>>
       ELSE found

IdentifyClauses(s) ==
    LET first == FirstClauseMatch(s)
        preamble_text == IF first = 0 THEN <<>> ELSE Strip(SubSeq(s, 1, first - 1))
        preamble == IF preamble_text # <<>> /\ Len(Join(preamble_text)) > 50
                    THEN <<[clause_id |-> "clause_preamble",
                            content |-> Cap(preamble_text, 2000)]>>
                    ELSE <<>>
        remainder_text == IF first = 0 THEN s ELSE SubSeq(s, first, Len(s))
        found == preamble \o SplitClauses(remainder_text, MarkerPositions(remainder_text))
    IN IF found = <<>>
       THEN <<[clause_id |-> "clause_1", content |-> Cap(s, 1500)]>>
       ELSE found

\* convert: extract the text, identify the clauses, generate the markdown.
InitSegment ==
    /\ \E text \in PageTexts : full_text = FullText(text)
    /\ clauses = <<>>
    /\ markdown_file = <<>>
    /\ markdown_content = <<>>
    /\ risk_outputs = <<>>
    /\ node = "convert"
    /\ i = 1
    /\ prev_markdown = <<>>
    /\ last_op = NoOp
    /\ nops = 0
    /\ NoRun /\ NoRetry /\ NoCitation /\ NoScoring /\ NoBatch

Convert ==
    /\ node = "convert"
    /\ clauses' = IdentifyClauses(full_text)
    /\ markdown_file' = GenerateMarkdown(IdentifyClauses(full_text))
    /\ node' = "converted"
    /\ UNCHANGED <<markdown_content, risk_outputs, i, prev_markdown, last_op, nops>>
    /\ UNCHANGED <<seg_vars, run_vars, retry_vars, cite_vars, score_vars, batch_vars>>

NextSegment == Convert

SpecSegment == InitSegment /\ [][NextSegment]_vars

(***************************************************************************)
(* utils.retry_helper.retry_with_exponential_backoff: the wrapper around   *)
(* one oracle call.  An exception is its message, with what the wrapper    *)
(* looks for in it: "429", "quota", "rate limit", and the seconds after    *)
(* "retry in" (0 when the message has none).                               *)
(***************************************************************************)
Exceptions ==
    {[msg |-> "Invalid json output", code_429 |-> FALSE, quota |-> FALSE,
      rate_limit |-> FALSE, retry_in |-> 0],
     [msg |-> "429 Too Many Requests", code_429 |-> TRUE, quota |-> FALSE,
      rate_limit |-> FALSE, retry_in |-> 0],
     [msg |-> "Rate limit reached, retry in 1s", code_429 |-> FALSE, quota |-> FALSE,
      rate_limit |-> TRUE, retry_in |-> 1],
     [msg |-> "Quota exceeded, please retry in 30s", code_429 |-> FALSE, quota |-> TRUE,
      rate_limit |-> FALSE, retry_in |-> 30],
     [msg |-> "429 Resource exhausted, retry in 90s", code_429 |-> TRUE, quota |-> FALSE,
      rate_limit |-> FALSE, retry_in |-> 90]}

\* A decorator with a low cap and fewer retries, next to the one the agents use.
TightConfig ==
    [max_retries |-> 2, initial_delay |-> 2, max_delay |-> 3, exponential_base |-> 2]
RetryConfigs == {DefaultConfig, TightConfig}

Max2(a, b) == IF a >= b THEN a ELSE b
Min2(a, b) == IF a <= b THEN a ELSE b

\* A check that takes every error for a rate limit error.
IsRateLimitErrorAlways(e) == TRUE

\* "429" in error_msg or "quota" in error_msg.lower() or "rate limit" in ...
IsRateLimitError(e) == e.code_429 \/ e.quota \/ e.rate_limit

\* A wait_time without the cap of max_delay.
WaitTimeUncapped(e, d, cfg) == IF e.retry_in # 0 THEN Max2(e.retry_in, d) ELSE d

\* wait_time: delay, or the suggested wait if that is longer, capped.
WaitTime(e, d, cfg) ==
    Min2(IF e.retry_in # 0 THEN Max2(e.retry_in, d) ELSE d, cfg.max_delay)

\* A backoff that does not grow.
NextDelayConstant(d, cfg) == d

\* delay *= exponential_base
NextDelay(d, cfg) == d * cfg.exponential_base

InitRetry ==
    /\ \E cfg \in RetryConfigs :
        /\ config = cfg
        /\ delay = cfg.initial_delay
    /\ responses = <<>>
    /\ attempt = 0
    /\ sleeps = <<>>
    /\ calls = 0
    /\ result = [status |-> "running", exception |-> NoException]
    /\ clauses = <<>>
    /\ markdown_file = <<>>
    /\ markdown_content = <<>>
    /\ risk_outputs = <<>>
    /\ node = "wrapper"
    /\ i = 1
    /\ prev_markdown = <<>>
    /\ last_op = NoOp
    /\ nops = 0
    /\ NoSegmenter /\ NoRun /\ NoCitation /\ NoScoring /\ NoBatch

InLoop == node = "wrapper" /\ result.status = "running" /\ attempt <= config.max_retries

NotRetry ==
    UNCHANGED <<clauses, markdown_file, markdown_content, risk_outputs, node, i,
                prev_markdown, last_op, nops, seg_vars, run_vars, config,
                cite_vars, score_vars, batch_vars>>

\* return func(*args, **kwargs)
FuncReturns ==
    /\ InLoop
    /\ calls' = calls + 1
    /\ result' = [status |-> "returned", exception |-> NoException]
    /\ UNCHANGED <<responses, attempt, delay, sleeps>>
    /\ NotRetry

\* func raises e: not a rate limit error, or no retry left: raise.
FuncRaisesAndWrapperRaises ==
    /\ InLoop
    /\ \E e \in Exceptions :
        /\ ~IsRateLimitError(e) \/ attempt >= config.max_retries
        /\ responses' = Append(responses, e)
        /\ result' = [status |-> "raised", exception |-> e]
    /\ calls' = calls + 1
    /\ UNCHANGED <<attempt, delay, sleeps>>
    /\ NotRetry

\* func raises a rate limit error and a retry is left: sleep, grow the delay.
FuncRaisesAndWrapperSleeps ==
    /\ InLoop
    /\ \E e \in Exceptions :
        /\ IsRateLimitError(e) /\ attempt < config.max_retries
        /\ responses' = Append(responses, e)
        /\ sleeps' = Append(sleeps, WaitTime(e, delay, config))
    /\ calls' = calls + 1
    /\ delay' = NextDelay(delay, config)
    /\ attempt' = attempt + 1
    /\ UNCHANGED result
    /\ NotRetry

NextRetry == FuncReturns \/ FuncRaisesAndWrapperRaises \/ FuncRaisesAndWrapperSleeps

SpecRetry == InitRetry /\ [][NextRetry]_vars

(***************************************************************************)
(* orchestrator.workflow.NyayaAIWorkflow: the six nodes of the graph, each *)
(* catching what its agent raises into state["error"], and the agents'     *)
(* handling of an oracle call that fails.                                  *)
(***************************************************************************)
Chain == <<"pdf_to_markdown", "classify_clauses", "detect_risks", "retrieve_legal",
           "generate_redlines", "generate_summary">>

\* A graph whose first edge leads past the classification.
NextNodeSkippingClassify(n) ==
    CASE n = "pdf_to_markdown" -> "detect_risks"
      [] n = "classify_clauses" -> "detect_risks"
      [] n = "detect_risks" -> "retrieve_legal"
      [] n = "retrieve_legal" -> "generate_redlines"
      [] n = "generate_redlines" -> "generate_summary"
      [] OTHER -> "END"

\* workflow.add_edge(...)
NextNode(n) ==
    CASE n = "pdf_to_markdown" -> "classify_clauses"
      [] n = "classify_clauses" -> "detect_risks"
      [] n = "detect_risks" -> "retrieve_legal"
      [] n = "retrieve_legal" -> "generate_redlines"
      [] n = "generate_redlines" -> "generate_summary"
      [] OTHER -> "END"

\* state["error"] = f"... failed: {str(e)}" of each node
ErrorOf(n) ==
    CASE n = "pdf_to_markdown" -> "PDF conversion failed"
      [] n = "classify_clauses" -> "Classification failed"
      [] n = "detect_risks" -> "Risk detection failed"
      [] n = "retrieve_legal" -> "Legal retrieval failed"
      [] n = "generate_redlines" -> "Redline generation failed"
      [] OTHER -> "Summary generation failed"

\* state["stage"] = ... of each node
StageOf(n) ==
    CASE n = "pdf_to_markdown" -> "markdown_generated"
      [] n = "classify_clauses" -> "clauses_classified"
      [] n = "detect_risks" -> "risks_detected"
      [] n = "retrieve_legal" -> "citations_retrieved"
      [] n = "generate_redlines" -> "redlines_generated"
      [] OTHER -> "completed"

\* The node function is entered: recorded when its first step is taken.
Enter(n) == executed' = IF i = 1 THEN Append(executed, n) ELSE executed

\* An except branch that also marks the stage as done.
FailMarkingStage(n) ==
    /\ error' = ErrorOf(n)
    /\ first_error' = IF first_error = "None" THEN ErrorOf(n) ELSE first_error
    /\ node' = NextNode(n)
    /\ i' = 1
    /\ stage' = StageOf(n)

\* except Exception as e: state["error"] = ...; return state
Fail(n) ==
    /\ error' = ErrorOf(n)
    /\ first_error' = IF first_error = "None" THEN ErrorOf(n) ELSE first_error
    /\ node' = NextNode(n)
    /\ i' = 1
    /\ UNCHANGED stage

\* The oracle call of an agent for one clause, as _invoke_llm_with_retry and
\* the schema validation after it end: a value, or an exception raised.
RateLimitExhausted == "429 Too Many Requests"
ValidationError == "validation error"
Returned(value) == [raises |-> "", value |-> value]
Raised(e, value) == [raises |-> e, value |-> value]

\* logger.error(f"Error ... for clause {clause_id}: {e}") in the except branch
Logged(agent, clause_id, response) ==
    IF response.raises = "" THEN log
    ELSE Append(log, [agent |-> agent, index |-> i, clause_id |-> clause_id,
                      e |-> response.raises])

\* detect_risk: the validated response, or RiskLevel.MEDIUM without issues.
DefaultAssessment(clause_id) ==
    [clause_id |-> clause_id, risk_level |-> "Medium", issues |-> <<>>]
RiskResponses(clause_id) ==
    {Returned([clause_id |-> clause_id, risk_level |-> "High",
               issues |-> <<"Unilateral termination">>]),
     Returned([clause_id |-> clause_id, risk_level |-> "Low", issues |-> <<>>]),
     Raised(ValidationError, DefaultAssessment(clause_id)),
     Raised(RateLimitExhausted, DefaultAssessment(clause_id))}
\* A detect_risk that falls back to RiskLevel.HIGH.
DetectRiskDefaultingToHigh(clause_id, response) ==
    IF response.raises = "" THEN response.value
    ELSE [clause_id |-> clause_id, risk_level |-> "High", issues |-> <<>>]

DetectRisk(clause_id, response) ==
    IF response.raises = "" THEN response.value ELSE DefaultAssessment(clause_id)

\* retrieve_citation: the validated response, or a citation that is not found.
\* Citation(**result) raises a ValidationError when clause_id is missing.
CitationResponses(clause_id) ==
    {Returned(FoundResult(clause_id)), Raised(RateLimitExhausted, NoDict)}
RetrieveCitation(clause_id, response) ==
    IF response.raises = "" /\ "clause_id" \in DOMAIN response.value
    THEN Citation(response.value)
    ELSE NotFoundCitation(clause_id)

\* generate_redline: the validated response's text, or the default text.
RedlineResponses(clause_id) ==
    {Returned("Balanced rewrite of " \o clause_id), Raised(ValidationError, "")}
GenerateRedline(clause_id, response) ==
    IF response.raises = "" THEN response.value ELSE DefaultSuggestion

\* classify_clause: the validated response, or ClauseType.OTHER with
\* confidence 0.5 after a ValidationError and 0.3 after any other exception
\* (confidence in hundredths).
ClassifyResponses ==
    {Returned("Termination"), Raised(ValidationError, ""), Raised(RateLimitExhausted, "")}
ClassifyClause(clause_id, response) ==
    IF response.raises = ""
    THEN [clause_id |-> clause_id, type |-> response.value, confidence |-> 95]
    ELSE [clause_id |-> clause_id, type |-> "Other",
          confidence |-> IF response.raises = ValidationError THEN 50 ELSE 30]

NotRun ==
    UNCHANGED <<prev_markdown, last_op, nops, seg_vars, retry_vars, cite_vars, score_vars, batch_vars>>

\* _pdf_to_markdown_node, convert returns.
PdfToMarkdownNode ==
    /\ node = "pdf_to_markdown"
    /\ \E doc \in Documents :
        /\ clauses' = doc
        /\ markdown_file' = GenerateMarkdown(doc)
    /\ stage' = StageOf(node)
    /\ node' = NextNode(node)
    /\ Enter(node)
    /\ UNCHANGED <<markdown_content, risk_outputs, i, error, classified, first_error, log>>
    /\ NotRun

\* _pdf_to_markdown_node, convert raises (no file, no text in the PDF).
PdfToMarkdownNodeFails ==
    /\ node = "pdf_to_markdown"
    /\ Fail(node)
    /\ Enter(node)
    /\ UNCHANGED <<clauses, markdown_file, markdown_content, risk_outputs, classified, log>>
    /\ NotRun

\* _classify_clauses_node over classify_clauses, one clause.
ClassifyClausesNode ==
    /\ node = "classify_clauses"
    /\ clauses # <<>>
    /\ \E response \in ClassifyResponses :
        /\ classified' = Append(classified, ClassifyClause(clauses[i].clause_id, response))
        /\ log' = Logged("clause_classifier", clauses[i].clause_id, response)
    /\ IF i = Len(clauses)
       THEN node' = NextNode(node) /\ i' = 1 /\ stage' = StageOf(node)
       ELSE i' = i + 1 /\ UNCHANGED <<node, stage>>
    /\ Enter(node)
    /\ UNCHANGED <<clauses, markdown_file, markdown_content, risk_outputs, error, first_error>>
    /\ NotRun

\* A node whose agent loops over clauses, when state["clauses"] is empty:
\* classify_clauses returns an empty list; the other agents open
\* state["markdown_path"], still "", and raise.
NodeWithoutClauses ==
    /\ node \in {"classify_clauses", "detect_risks", "retrieve_legal", "generate_redlines"}
    /\ clauses = <<>>
    /\ IF node = "classify_clauses"
       THEN /\ node' = NextNode(node)
            /\ stage' = StageOf(node)
            /\ UNCHANGED <<error, first_error, i>>
       ELSE Fail(node)
    /\ Enter(node)
    /\ UNCHANGED <<clauses, markdown_file, markdown_content, risk_outputs, classified, log>>
    /\ NotRun

\* What a stage loop does after a clause in a run: next clause, or write the
\* file, return, and let the node store the results.
RunAdvance(new) ==
    /\ LoopAdvance(new, NextNode(node))
    /\ stage' = IF i = Len(clauses) THEN StageOf(node) ELSE stage
    /\ Enter(node)
    /\ UNCHANGED <<clauses, classified, error, first_error>>
    /\ NotRun

\* After the last clause the file cannot be written: open raises and the file
\* stays as it was, or write raises and leaves it truncated; the node records
\* the error and stores none of the agent's results.
SaveFails(new) ==
    /\ i = Len(clauses)
    /\ markdown_content' = new
    /\ markdown_file' \in {markdown_file, <<>>}
    /\ Fail(node)
    /\ Enter(node)
    /\ UNCHANGED <<clauses, classified>>
    /\ NotRun

\* compute_and_tag_risk for clause i, given the oracle's response.
RiskStep(response) ==
    LET risk_assessment == DetectRisk(clauses[i].clause_id, response)
    IN [markdown |-> TagMarkdown(LoopBuffer, clauses[i].clause_id,
                                 risk_assessment.risk_level, HasIssues(risk_assessment)),
        risk_output |-> [clause_id |-> clauses[i].clause_id,
                         risk_level |-> risk_assessment.risk_level]]

\* _detect_risks_node over process_all_clauses, one clause.
DetectRisksNode ==
    /\ node = "detect_risks"
    /\ clauses # <<>>
    /\ \E response \in RiskResponses(clauses[i].clause_id) :
        /\ RunAdvance(RiskStep(response).markdown)
        /\ risk_outputs' = Append(risk_outputs, RiskStep(response).risk_output)
        /\ log' = Logged("risk_detector", clauses[i].clause_id, response)

DetectRisksNodeSaveFails ==
    /\ node = "detect_risks"
    /\ clauses # <<>>
    /\ \E response \in RiskResponses(clauses[i].clause_id) :
        /\ SaveFails(RiskStep(response).markdown)
        /\ log' = Logged("risk_detector", clauses[i].clause_id, response)
    /\ risk_outputs' = <<>>

\* process_risk_tagged_markdown for clause i: a clause without risk level in
\* state["risk_levels_dict"] is passed over.
CitationStep(response) ==
    IF clauses[i].clause_id \in RiskLevelsDict
    THEN InsertCitationInMarkdown(LoopBuffer, clauses[i].clause_id,
                                  RetrieveCitation(clauses[i].clause_id, response))
    ELSE LoopBuffer

StageLogged(agent, response) ==
    IF clauses[i].clause_id \in RiskLevelsDict
    THEN Logged(agent, clauses[i].clause_id, response)
    ELSE log

\* _retrieve_legal_node over process_risk_tagged_markdown, one clause.
RetrieveLegalNode ==
    /\ node = "retrieve_legal"
    /\ clauses # <<>>
    /\ \E response \in CitationResponses(clauses[i].clause_id) :
        /\ RunAdvance(CitationStep(response))
        /\ log' = StageLogged("legal_retriever", response)
    /\ UNCHANGED risk_outputs

RetrieveLegalNodeSaveFails ==
    /\ node = "retrieve_legal"
    /\ clauses # <<>>
    /\ \E response \in CitationResponses(clauses[i].clause_id) :
        /\ SaveFails(CitationStep(response))
        /\ log' = StageLogged("legal_retriever", response)
    /\ UNCHANGED risk_outputs

\* process_cited_markdown for clause i, under the same condition.
RedlineStep(response) ==
    IF clauses[i].clause_id \in RiskLevelsDict
    THEN InsertSuggestionInMarkdown(LoopBuffer, clauses[i].clause_id,
                                    GenerateRedline(clauses[i].clause_id, response))
    ELSE LoopBuffer

\* _generate_redlines_node over process_cited_markdown, one clause.
GenerateRedlinesNode ==
    /\ node = "generate_redlines"
    /\ clauses # <<>>
    /\ \E response \in RedlineResponses(clauses[i].clause_id) :
        /\ RunAdvance(RedlineStep(response))
        /\ log' = StageLogged("redline_generator", response)
    /\ UNCHANGED risk_outputs

GenerateRedlinesNodeSaveFails ==
    /\ node = "generate_redlines"
    /\ clauses # <<>>
    /\ \E response \in RedlineResponses(clauses[i].clause_id) :
        /\ SaveFails(RedlineStep(response))
        /\ log' = StageLogged("redline_generator", response)
    /\ UNCHANGED risk_outputs

\* _generate_summary_node: compute_contract_score raises ValueError("No clause
\* scores provided") when state["risk_outputs"] is empty.
GenerateSummaryNode ==
    /\ node = "generate_summary"
    /\ IF risk_outputs = <<>>
       THEN Fail(node)
       ELSE /\ stage' = StageOf(node)
            /\ node' = NextNode(node)
            /\ UNCHANGED <<error, first_error, i>>
    /\ Enter(node)
    /\ UNCHANGED <<clauses, markdown_file, markdown_content, risk_outputs, classified, log>>
    /\ NotRun

NextRun ==
    \/ PdfToMarkdownNode \/ PdfToMarkdownNodeFails
    \/ ClassifyClausesNode \/ NodeWithoutClauses
    \/ DetectRisksNode \/ DetectRisksNodeSaveFails
    \/ RetrieveLegalNode \/ RetrieveLegalNodeSaveFails
    \/ GenerateRedlinesNode \/ GenerateRedlinesNodeSaveFails
    \/ GenerateSummaryNode

SpecRun == Init /\ [][NextRun]_vars

(***************************************************************************)
(* legal_retriever.LegalRetrieverAgent.process_risk_tagged_markdown on the *)
(* buffer the risk stage left, with every answer the oracle can give.      *)
(***************************************************************************)
\* The buffer after the risk stage tagged the first k clauses of doc.
RECURSIVE RiskTagged(_, _, _)
RiskTagged(doc, k, risk_level) ==
    IF k = 0 THEN GenerateMarkdown(doc)
    ELSE TagMarkdown(RiskTagged(doc, k - 1, risk_level), doc[k].clause_id,
                     risk_level, TRUE)

OracleCitationResponses(clause_id) ==
    {Returned(json) : json \in CitationResults(clause_id)}
    \cup {Raised(RateLimitExhausted, NoDict)}

InitCite ==
    /\ \E doc \in Documents :
        \E risk_level \in RiskLevel :
            /\ clauses = doc
            /\ markdown_file = RiskTagged(doc, Len(doc), risk_level)
            /\ markdown_content = RiskTagged(doc, Len(doc), risk_level)
            /\ risk_outputs = [k \in 1..Len(doc) |->
                                 [clause_id |-> doc[k].clause_id,
                                  risk_level |-> risk_level]]
    /\ node = "retrieve_citation"
    /\ i = 1
    /\ prev_markdown = <<>>
    /\ last_op = NoOp
    /\ nops = 0
    /\ NoSegmenter /\ NoRun /\ NoRetry /\ NoCitation /\ NoScoring /\ NoBatch

\* One turn of the loop: retrieve_citation, then _insert_citation_in_markdown;
\* the file is written after the last clause.
ProcessRiskTaggedClause ==
    /\ node = "retrieve_citation"
    /\ \E response \in OracleCitationResponses(clauses[i].clause_id) :
        LET clause_id == clauses[i].clause_id
            citation == RetrieveCitation(clause_id, response)
            new == InsertCitationInMarkdown(markdown_content, clause_id, citation)
        IN /\ oracle' = response
           /\ prev_markdown' = markdown_content
           /\ markdown_content' = new
           /\ last_op' = CitationOp(i, clause_id, citation)
           /\ markdown_file' = IF i = Len(clauses) THEN new ELSE markdown_file
           /\ node' = IF i = Len(clauses) THEN "cited" ELSE node
           /\ i' = i + 1
    /\ UNCHANGED <<clauses, risk_outputs, nops>>
    /\ UNCHANGED <<seg_vars, run_vars, retry_vars, score_vars, batch_vars>>

NextCite == ProcessRiskTaggedClause

SpecCite == InitCite /\ [][NextCite]_vars

(***************************************************************************)
(* main.main: the batch run around NyayaAIWorkflow.execute.                *)
(***************************************************************************)
BatchArgs ==
    [pdf_exists : BOOLEAN, suffix : {".pdf", ".txt"}, api_key : {"", "key"}]
\* risk_report_*.json, executive_summary_*.txt, annotated_contract_*.md
OutputFiles == <<"risk_report", "executive_summary", "annotated_contract">>

InitBatch ==
    /\ args \in BatchArgs
    /\ exit_code = -1
    /\ report = <<>>
    /\ clauses = <<>>
    /\ markdown_file = <<>>
    /\ markdown_content = <<>>
    /\ risk_outputs = <<>>
    /\ node = "main"
    /\ i = 1
    /\ prev_markdown = <<>>
    /\ last_op = NoOp
    /\ nops = 0
    /\ NoSegmenter /\ NoRun /\ NoRetry /\ NoCitation /\ NoScoring

\* if not pdf_path.exists(), if not suffix == '.pdf', if not api_key
ArgsAccepted == args.pdf_exists /\ args.suffix = ".pdf" /\ args.api_key # ""

NotBatch ==
    UNCHANGED <<clauses, markdown_file, markdown_content, risk_outputs, i,
                prev_markdown, last_op, nops, args,
                seg_vars, run_vars, retry_vars, cite_vars, score_vars>>

\* sys.exit(1) before the workflow is created
MainRejects ==
    /\ node = "main"
    /\ ~ArgsAccepted
    /\ exit_code' = 1
    /\ node' = "exit"
    /\ UNCHANGED report
    /\ NotBatch

\* final_state = workflow.execute(...)
MainExecutes ==
    /\ node = "main"
    /\ ArgsAccepted
    /\ node' = "pdf_to_markdown"
    /\ UNCHANGED <<exit_code, report>>
    /\ NotBatch

\* if final_state.get("error"): the error is logged and printed, and main returns
MainReportsError ==
    /\ node = "END"
    /\ error # "None"
    /\ exit_code' = 0
    /\ node' = "exit"
    /\ UNCHANGED report
    /\ NotBatch

\* else: save_outputs(final_state, output_dir), and main returns
MainSavesOutputs ==
    /\ node = "END"
    /\ error = "None"
    /\ report' = OutputFiles
    /\ exit_code' = 0
    /\ node' = "exit"
    /\ NotBatch

\* save_outputs raises after writing some of the files: except Exception, sys.exit(1)
MainSaveFails ==
    /\ node = "END"
    /\ error = "None"
    /\ \E written \in 0..(Len(OutputFiles) - 1) :
        report' = SubSeq(OutputFiles, 1, written)
    /\ exit_code' = 1
    /\ node' = "exit"
    /\ NotBatch

NextBatch ==
    \/ MainRejects \/ MainExecutes
    \/ NextRun
    \/ MainReportsError \/ MainSavesOutputs \/ MainSaveFails

SpecBatch == InitBatch /\ [][NextBatch]_vars

(***************************************************************************)
(* risk_engine.RiskEngine: the deterministic clause score.  A text is a    *)
(* string, and a keyword matches where it is a substring of the text, both *)
(* in lower case.                                                          *)
(***************************************************************************)
\* Base scores with a Low base of 5.
BASE_SCORES_LOW_5(llm_risk_level) ==
    CASE llm_risk_level = "High" -> 70
      [] llm_risk_level = "Medium" -> 40
      [] llm_risk_level = "Low" -> 5

BASE_SCORES(llm_risk_level) ==
    CASE llm_risk_level = "High" -> 70
      [] llm_risk_level = "Medium" -> 40
      [] llm_risk_level = "Low" -> 10

UNILATERAL_KEYWORDS ==
    <<"sole discretion",
      "without notice",
      "absolute right",
      "at its discretion",
      "unilaterally",
      "without consent",
      "without approval",
      "at any time without",
      "sole judgment",
      "at our sole option",
      "may terminate immediately",
      "without cause",
      "at will",
      "in its sole opinion",
      "as we deem fit",
      "reserves the right to",
      "without any obligation",
      "absolute authority",
      "unfettered discretion",
      "without restriction",
      "exclusive right to",
      "unconditional right">>

UNLIMITED_LIABILITY_KEYWORDS ==
    <<"unlimited liability",
      "no cap on liability",
      "without limitation",
      "no maximum liability",
      "unlimited damages",
      "no limit to liability",
      "full liability",
      "entire liability",
      "complete indemnification",
      "all damages",
      "any and all losses",
      "consequential damages unlimited",
      "punitive damages",
      "all direct and indirect",
      "unlimited indemnity">>

IP_NO_COMPENSATION_KEYWORDS ==
    <<"assigns all rights",
      "transfers all intellectual property",
      "work for hire without additional",
      "ip assignment without compensation",
      "irrevocably assigns",
      "waives all rights to",
      "exclusive ownership without",
      "perpetual license without",
      "all proprietary rights",
      "intellectual property vests",
      "ownership automatically transfers",
      "assigns without consideration">>

BROAD_INDEMNITY_KEYWORDS ==
    <<"indemnify and hold harmless",
      "fully indemnify",
      "shall indemnify for any",
      "indemnify against all claims",
      "unlimited indemnification",
      "defend and indemnify",
      "indemnify from any and all",
      "hold harmless from all",
      "indemnification without limit",
      "indemnify against any liability",
      "save harmless",
      "bear all liability",
      "responsible for all claims">>

VAGUE_PHRASES ==
    <<"as deemed appropriate",
      "from time to time",
      "reasonable at its discretion",
      "as necessary",
      "as required",
      "such other",
      "and/or similar",
      "at the discretion of",
      "in its opinion",
      "as it sees fit",
      "at such times",
      "in such manner",
      "may be required",
      "reasonably required",
      "appropriate measures",
      "sufficient notice",
      "adequate protection",
      "reasonable time",
      "as appropriate",
      "among other things">>

BALANCED_LANGUAGE ==
    <<"mutual",
      "both parties",
      "subject to notice period",
      "with prior written notice",
      "mutually agree",
      "reasonable notice",
      "upon mutual consent",
      "jointly",
      "reciprocal",
      "either party",
      "each party",
      "mutually acceptable",
      "written consent of both",
      "joint decision",
      "bilateral",
      "equal footing",
      "fair and reasonable",
      "on similar terms",
      "symmetrical",
      "equitable">>

INDIAN_PROTECTIVE_TERMS ==
    <<"registered agreement",
      "stamp duty",
      "notarized",
      "force majeure",
      "as per indian law",
      "subject to indian courts",
      "arbitration under arbitration act",
      "governed by laws of india",
      "jurisdiction of indian courts",
      "indian contract act",
      "consumer protection act",
      "msme act compliance",
      "registered under companies act">>

INDIAN_WARNING_SIGNS ==
    <<"waiver of consumer rights",
      "no recourse to courts",
      "foreign law governed",
      "waiver of statutory rights",
      "excluding indian jurisdiction",
      "arbitration outside india",
      "foreign arbitration mandatory",
      "no msme protection",
      "waiver under contract act",
      "governed by foreign law exclusively">>

PAYMENT_RED_FLAGS ==
    <<"payment at sole discretion",
      "no refund policy",
      "non-refundable",
      "forfeiture of deposit",
      "penalty without limit",
      "liquidated damages unlimited",
      "charges without notice",
      "price change without notice",
      "payment terms subject to change">>

TERMINATION_RED_FLAGS ==
    <<"terminate without cause",
      "immediate termination without notice",
      "no cure period",
      "forfeit all payments on termination",
      "no compensation on termination",
      "terminate for convenience",
      "unilateral termination right">>

\* str.lower(), on the characters that occur in contract text
LowerChar(c) ==
    CASE c = "A" -> "a" [] c = "B" -> "b" [] c = "C" -> "c" [] c = "D" -> "d"
      [] c = "E" -> "e" [] c = "F" -> "f" [] c = "G" -> "g" [] c = "H" -> "h"
      [] c = "I" -> "i" [] c = "J" -> "j" [] c = "K" -> "k" [] c = "L" -> "l"
      [] c = "M" -> "m" [] c = "N" -> "n" [] c = "O" -> "o" [] c = "P" -> "p"
      [] c = "Q" -> "q" [] c = "R" -> "r" [] c = "S" -> "s" [] c = "T" -> "t"
      [] c = "U" -> "u" [] c = "V" -> "v" [] c = "W" -> "w" [] c = "X" -> "x"
      [] c = "Y" -> "y" [] c = "Z" -> "z" [] OTHER -> c
RECURSIVE Lower(_)
Lower(text) ==
    IF Len(text) = 0 THEN ""
    ELSE LowerChar(SubSeq(text, 1, 1)) \o Lower(SubSeq(text, 2, Len(text)))

\* keyword in text
Contains(text, keyword) ==
    \E pos \in 1..(Len(text) + 1 - Len(keyword)) :
        SubSeq(text, pos, pos + Len(keyword) - 1) = keyword

\* A _check_keywords that compares the keyword with the text as written.
CheckKeywordsCaseSensitive(text, keywords) ==
    SelectSeq(keywords, LAMBDA keyword : Contains(text, Lower(keyword)))

CheckKeywords(text, keywords) ==
    LET text_lower == Lower(text)
    IN SelectSeq(keywords, LAMBDA keyword : Contains(text_lower, Lower(keyword)))

\* matches[:n]
Take(matches, n) == SubSeq(matches, 1, Min2(n, Len(matches)))
\* ', '.join(matches)
RECURSIVE JoinComma(_)
JoinComma(matches) ==
    IF Len(matches) = 0 THEN ""
    ELSE IF Len(matches) = 1 THEN matches[1]
    ELSE matches[1] \o ", " \o JoinComma(Tail(matches))

\* if matches: modifiers.append(ScoreModifier(...))
Modifier(matches, modifier_type, value, reason) ==
    IF Len(matches) = 0 THEN <<>>
    ELSE <<[modifier_type |-> modifier_type, value |-> value, reason |-> reason]>>

\* sum(m.value for m in modifiers)
RECURSIVE SumValues(_)
SumValues(modifiers) ==
    IF Len(modifiers) = 0 THEN 0
    ELSE modifiers[1].value + SumValues(Tail(modifiers))

\* The ten keyword checks of compute_clause_risk_score, in the order of the code.
Modifiers(clause_content) ==
    LET unilateral_matches == CheckKeywords(clause_content, UNILATERAL_KEYWORDS)
        unlimited_liability_matches ==
            CheckKeywords(clause_content, UNLIMITED_LIABILITY_KEYWORDS)
        ip_matches == CheckKeywords(clause_content, IP_NO_COMPENSATION_KEYWORDS)
        indemnity_matches == CheckKeywords(clause_content, BROAD_INDEMNITY_KEYWORDS)
        vague_matches == CheckKeywords(clause_content, VAGUE_PHRASES)
        balanced_matches == CheckKeywords(clause_content, BALANCED_LANGUAGE)
        warning_matches == CheckKeywords(clause_content, INDIAN_WARNING_SIGNS)
        payment_red_flags == CheckKeywords(clause_content, PAYMENT_RED_FLAGS)
        termination_red_flags == CheckKeywords(clause_content, TERMINATION_RED_FLAGS)
        protective_matches == CheckKeywords(clause_content, INDIAN_PROTECTIVE_TERMS)
    IN Modifier(unilateral_matches, "unilateral_language", 10,
                "Unilateral terms detected: " \o JoinComma(Take(unilateral_matches, 3)))
       \o Modifier(unlimited_liability_matches, "unlimited_liability", 15,
                   "Unlimited liability terms: "
                       \o JoinComma(Take(unlimited_liability_matches, 2)))
       \o Modifier(ip_matches, "ip_no_compensation", 10,
                   "IP assignment without clear compensation")
       \o Modifier(indemnity_matches, "broad_indemnity", 10,
                   "Broad indemnity clause: " \o JoinComma(Take(indemnity_matches, 1)))
       \o Modifier(vague_matches, "vague_language", 5,
                   "Vague terms detected: " \o JoinComma(Take(vague_matches, 3)))
       \o Modifier(balanced_matches, "balanced_language", -5,
                   "Balanced terms found: " \o JoinComma(Take(balanced_matches, 2)))
       \o Modifier(warning_matches, "indian_warning_signs", 8,
                   "Indian legal concerns: " \o JoinComma(Take(warning_matches, 2)))
       \o Modifier(payment_red_flags, "payment_red_flags", 7,
                   "Payment concerns: " \o JoinComma(Take(payment_red_flags, 2)))
       \o Modifier(termination_red_flags, "termination_red_flags", 8,
                   "Termination concerns: " \o JoinComma(Take(termination_red_flags, 2)))
       \o Modifier(protective_matches, "indian_protective_terms", -3,
                   "Indian legal protections: " \o JoinComma(Take(protective_matches, 2)))

\* A scorer that returns the sum without the clamp to [0, 100].
ComputeClauseRiskScoreUnclamped(clause_id, clause_content, llm_risk_level) ==
    LET base_score == BASE_SCORES(llm_risk_level)
        modifiers == Modifiers(clause_content)
    IN [clause_id |-> clause_id,
        final_risk_score |-> base_score + SumValues(modifiers),
        base_score |-> base_score,
        modifiers |-> modifiers]

\* A scorer that names the clause in the reason of every modifier.
ComputeClauseRiskScoreNamingClause(clause_id, clause_content, llm_risk_level) ==
    LET base_score == BASE_SCORES(llm_risk_level)
        modifiers == Modifiers(clause_content)
    IN [clause_id |-> clause_id,
        final_risk_score |-> Max2(0, Min2(100, base_score + SumValues(modifiers))),
        base_score |-> base_score,
        modifiers |-> [k \in 1..Len(modifiers) |->
                          [modifiers[k] EXCEPT !.reason = clause_id \o ": " \o @]]]

\* A scorer whose modifiers lower the score they should raise.
ComputeClauseRiskScoreSubtracting(clause_id, clause_content, llm_risk_level) ==
    LET base_score == BASE_SCORES(llm_risk_level)
        modifiers == Modifiers(clause_content)
    IN [clause_id |-> clause_id,
        final_risk_score |-> Max2(0, Min2(100, base_score - SumValues(modifiers))),
        base_score |-> base_score,
        modifiers |-> modifiers]

\* ClauseRiskScore, with the fields of its ScoringBreakdown
ComputeClauseRiskScore(clause_id, clause_content, llm_risk_level) ==
    LET base_score == BASE_SCORES(llm_risk_level)
        modifiers == Modifiers(clause_content)
        total_modifiers == SumValues(modifiers)
        final_score == Max2(0, Min2(100, base_score + total_modifiers))
    IN [clause_id |-> clause_id,
        final_risk_score |-> final_score,
        base_score |-> base_score,
        modifiers |-> modifiers]

\* The clause texts the scorer is called with: no keyword, one category each,
\* several categories, every category, and keywords in capitals.
ClauseContents ==
    {"Payment is due in 30 days",
     "Company may terminate this agreement at its sole discretion without notice",
     "Supplier accepts unlimited liability",
     "Employee irrevocably assigns the work",
     "Vendor shall fully indemnify the Company",
     "Fees may be revised from time to time",
     "Both parties shall agree on the fees",
     "Disputes go to arbitration outside India",
     "The deposit is non-refundable",
     "There is no cure period",
     "Subject to force majeure",
     "At its sole discretion, with unlimited liability, Vendor shall fully indemnify",
     "Both parties agree, subject to Force Majeure",
     "At its sole discretion, with unlimited liability, Vendor shall fully indemnify both parties",
     "TERMINATE WITHOUT CAUSE",
     "Unilaterally, unlimited liability, irrevocably assigns, fully indemnify, from time to time, arbitration outside India, non-refundable, no cure period",
     "Unilaterally, unlimited liability, irrevocably assigns, fully indemnify, from time to time, both parties, arbitration outside India, non-refundable, no cure period, force majeure"}
ScoredIds == {"clause_1", "clause_2", "clause_3"}

\* risk_engine.compute_clause_score over the texts, ids and levels above
ComputeClauseScore ==
    [clause_id \in ScoredIds, clause_content \in ClauseContents,
     llm_risk_level \in RiskLevel |->
        ComputeClauseRiskScore(clause_id, clause_content, llm_risk_level)]

\* One call of the scorer, as RiskDetectorAgent.compute_and_tag_risk makes it.
ScoredClause(clause_id, clause_content, llm_risk_level) ==
    [clause_id |-> clause_id, content |-> clause_content, level |-> llm_risk_level,
     score |-> ComputeClauseScore[clause_id, clause_content, llm_risk_level]]

InitScore ==
    /\ scored = <<>>
    /\ summary = NoSummary
    /\ clauses = <<>>
    /\ markdown_file = <<>>
    /\ markdown_content = <<>>
    /\ risk_outputs = <<>>
    /\ node = "score"
    /\ i = 1
    /\ prev_markdown = <<>>
    /\ last_op = NoOp
    /\ nops = 0
    /\ NoSegmenter /\ NoRun /\ NoRetry /\ NoCitation /\ NoBatch

NotScore ==
    UNCHANGED <<clauses, markdown_file, markdown_content, risk_outputs, i,
                prev_markdown, last_op, nops,
                seg_vars, run_vars, retry_vars, cite_vars, batch_vars>>

ScoreClause ==
    /\ node = "score"
    /\ Len(scored) < MaxScored
    /\ \E clause_id \in {"clause_1", "clause_2"} :
        \E clause_content \in ClauseContents :
            \E llm_risk_level \in RiskLevel :
                scored' = Append(scored, ScoredClause(clause_id, clause_content,
                                                      llm_risk_level))
    /\ UNCHANGED <<node, summary>>
    /\ NotScore

NextScore == ScoreClause

SpecScore == InitScore /\ [][NextScore]_vars

(***************************************************************************)
(* risk_engine.RiskEngine.compute_contract_risk_score, as the summary node *)
(* of the workflow calls it on the outputs of the risk stage.  The raw     *)
(* score is kept as the fraction num / den.                                *)
(***************************************************************************)
\* A clause_scores_list that carries the sums before the clamp to [0, 100].
ClauseScoresListUnclamped(outputs) ==
    [k \in 1..Len(outputs) |->
        [clause_id |-> outputs[k].clause_id,
         final_risk_score |-> outputs[k].score.base_score
                              + SumValues(outputs[k].score.modifiers)]]

\* clause_scores_list of _generate_summary_node
ClauseScoresList(outputs) ==
    [k \in 1..Len(outputs) |->
        [clause_id |-> outputs[k].clause_id,
         final_risk_score |-> outputs[k].score.final_risk_score]]

\* risk_levels_dict = {r.clause_id: r.risk_level for r in risk_outputs}: the
\* level of the last output with the id.
RiskLevelsOf(outputs) ==
    [cid \in {outputs[k].clause_id : k \in 1..Len(outputs)} |->
        LET last == CHOOSE k \in 1..Len(outputs) :
                        /\ outputs[k].clause_id = cid
                        /\ \A j \in (k + 1)..Len(outputs) : outputs[j].clause_id # cid
        IN outputs[last].level]

\* sum(risky_clause_scores)
RECURSIVE SumScores(_)
SumScores(clause_scores) ==
    IF Len(clause_scores) = 0 THEN 0
    ELSE clause_scores[1].final_risk_score + SumScores(Tail(clause_scores))

\* max(clause_scores, key=...) that keeps the last of equal scores.
RECURSIVE MostCriticalLastFrom(_, _, _)
MostCriticalLastFrom(clause_scores, k, best) ==
    IF k > Len(clause_scores) THEN best
    ELSE MostCriticalLastFrom(clause_scores, k + 1,
             IF clause_scores[k].final_risk_score >= best.final_risk_score
             THEN clause_scores[k] ELSE best)
MostCriticalLast(clause_scores) == MostCriticalLastFrom(clause_scores, 2, clause_scores[1])

\* max(clause_scores, key=lambda x: x.final_risk_score): a later item replaces
\* the maximum only when its key is greater.
RECURSIVE MostCriticalFrom(_, _, _)
MostCriticalFrom(clause_scores, k, best) ==
    IF k > Len(clause_scores) THEN best
    ELSE MostCriticalFrom(clause_scores, k + 1,
             IF clause_scores[k].final_risk_score > best.final_risk_score
             THEN clause_scores[k] ELSE best)
MostCritical(clause_scores) == MostCriticalFrom(clause_scores, 2, clause_scores[1])

\* count / total is a binary fraction, so that count / total * 100 is exact
\* in floating point.
IsDyadic(count, total) == \E p \in {1, 2, 4, 8, 16, 32, 64} : (count * p) % total = 0

\* A compute_contract_risk_score that returns a summary for no clauses.
ComputeContractRiskScoreOfNothing(clause_scores, risk_levels) ==
    {[status |-> "returned",
      overall_risk_score |-> 0,
      most_critical_clause |-> IF Len(clause_scores) = 0 THEN ""
                               ELSE MostCritical(clause_scores).clause_id,
      high_count |-> 0, medium_count |-> 0,
      total_count |-> Cardinality(DOMAIN risk_levels),
      risky_sum |-> 0, risky_len |-> 0]}

\* The outcomes of compute_contract_risk_score: ValueError for no clause
\* scores, else the summary.  int(raw_score) truncates the floating point
\* sum: that is the whole part of num / den, except that a sum whose exact
\* value is a whole number can fall just below it when a percentage is not
\* exact in floating point.
ComputeContractRiskScore(clause_scores, risk_levels) ==
    IF Len(clause_scores) = 0
    THEN {[NoSummary EXCEPT !.status = "raised"]}
    ELSE
    LET high_count == Cardinality({cid \in DOMAIN risk_levels : risk_levels[cid] = "High"})
        medium_count ==
            Cardinality({cid \in DOMAIN risk_levels : risk_levels[cid] = "Medium"})
        total_count == Cardinality(DOMAIN risk_levels)
        risky_clause_scores ==
            SelectSeq(clause_scores,
                      LAMBDA cs : /\ cs.clause_id \in DOMAIN risk_levels
                                  /\ risk_levels[cs.clause_id] \in {"High", "Medium"})
        risky_sum == SumScores(risky_clause_scores)
        risky_len == Len(risky_clause_scores)
        pct_den == IF total_count > 0 THEN total_count ELSE 1
        avg_den == IF risky_len > 0 THEN risky_len ELSE 1
        \* high_percentage * 0.6 + medium_percentage * 0.3 + avg_risky_score * 0.2
        num == (60 * high_count + 30 * medium_count) * 5 * avg_den + risky_sum * pct_den
        den == 5 * pct_den * avg_den
        inexact == ~IsDyadic(high_count, pct_den) \/ ~IsDyadic(medium_count, pct_den)
        truncated == IF num % den = 0 /\ inexact
                     THEN {(num \div den) - 1, num \div den}
                     ELSE {num \div den}
    IN {[status |-> "returned",
         overall_risk_score |-> Max2(0, Min2(100, int_raw_score)),
         most_critical_clause |-> MostCritical(clause_scores).clause_id,
         high_count |-> high_count, medium_count |-> medium_count,
         total_count |-> total_count,
         risky_sum |-> risky_sum, risky_len |-> risky_len] :
            int_raw_score \in truncated}

\* The risk outputs the summary node can find: texts without keywords, with a
\* termination red flag, and with keywords past the upper clamp.
AggregatedContents ==
    {"Payment is due in 30 days",
     "There is no cure period",
     "At its sole discretion, with unlimited liability, Vendor shall fully indemnify"}
AggregatedClauses ==
    {ScoredClause(clause_id, clause_content, llm_risk_level) :
        clause_id \in ScoredIds, clause_content \in AggregatedContents,
        llm_risk_level \in RiskLevel}

InitAggregate ==
    /\ scored \in SeqsUpTo(AggregatedClauses, MaxScored)
    /\ summary = NoSummary
    /\ error = "None"
    /\ stage = "redlines_generated"
    /\ classified = <<>>
    /\ executed = SubSeq(Chain, 1, 5)
    /\ first_error = "None"
    /\ log = <<>>
    /\ clauses = <<>>
    /\ markdown_file = <<>>
    /\ markdown_content = <<>>
    /\ risk_outputs = <<>>
    /\ node = "generate_summary"
    /\ i = 1
    /\ prev_markdown = <<>>
    /\ last_op = NoOp
    /\ nops = 0
    /\ NoSegmenter /\ NoRetry /\ NoCitation /\ NoBatch

\* _generate_summary_node: the contract score of the risk outputs, or, when
\* compute_contract_score raises, the error.
SummarizeScored ==
    /\ node = "generate_summary"
    /\ summary' \in ComputeContractRiskScore(ClauseScoresList(scored),
                                              RiskLevelsOf(scored))
    /\ IF summary'.status = "raised"
       THEN Fail(node)
       ELSE /\ stage' = StageOf(node)
            /\ node' = NextNode(node)
            /\ UNCHANGED <<error, first_error, i>>
    /\ Enter(node)
    /\ UNCHANGED <<scored, clauses, markdown_file, markdown_content, risk_outputs,
                   classified, log, prev_markdown, last_op, nops>>
    /\ UNCHANGED <<seg_vars, retry_vars, cite_vars, batch_vars>>

NextAggregate == SummarizeScored

SpecAggregate == InitAggregate /\ [][NextAggregate]_vars

(***************************************************************************)
(* Reading a buffer: clause spans and the layers they carry.               *)
(***************************************************************************)
\* The buffer the next layer operation will read.
Buffer == IF node = "operations" THEN markdown_content ELSE LoopBuffer
Rendered == node # "pdf_to_markdown"

\* Every rendered clause ends with one paragraph break and no layer operation
\* adds or removes one: the k-th break ends the span of the k-th clause.
Breaks(s) == {p \in 1..Len(s) : s[p] = NL}
SpanEnd(s, k) == CHOOSE p \in Breaks(s) : Cardinality({q \in Breaks(s) : q <= p}) = k
SpanStart(s, k) == IF k = 1 THEN Len(MarkdownHeader) + 1 ELSE SpanEnd(s, k - 1) + 1
Span(s, k) == SubSeq(s, SpanStart(s, k), SpanEnd(s, k))

DocIds == {clauses[k].clause_id : k \in 1..Len(clauses)}

Count(s, class) == Cardinality({p \in 1..Len(s) : s[p] \in class})
HasRisk(span) == Count(span, RiskTagClass) > 0
HasCitation(span) == Count(span, {IPC}) > 0
HasSuggestion(span) == Count(span, {SG}) > 0
HasRiskThenCitation(span) ==
    \E p \in 1..(Len(span) - 1) : span[p] \in RiskTagClass /\ span[p + 1] = IPC

\* A marker opens a fragment when an even number of its kind precedes it.
Opens(s, p, class) == s[p] \in class /\ Count(SubSeq(s, 1, p - 1), class) % 2 = 0
Closes(s, p, class) == s[p] \in class /\ Count(SubSeq(s, 1, p - 1), class) % 2 = 1

Ran == last_op.op # "none"

(***************************************************************************)
(* Claims.                                                                 *)
(***************************************************************************)

\* C1: a layer operation issued for clause X leaves the rendered span of every
\* other clause Y exactly as it was before the operation.
C1_OtherSpansUntouched ==
    Ran => \A k \in 1..Len(clauses) :
              clauses[k].clause_id # last_op.clause_id
                  => Span(markdown_content, k) = Span(prev_markdown, k)

\* C2: a Citation operation for a clause whose span carries no Risk tag leaves
\* the buffer unchanged.
C2_CitationWithoutRiskIsNoOp ==
    (last_op.op = "citation" /\ ~HasRisk(Span(prev_markdown, last_op.index)))
    => markdown_content = prev_markdown

\* C3: a Suggestion operation for a clause whose span has no Risk tag directly
\* followed by a Citation fragment leaves the buffer unchanged.
C3_SuggestionWithoutCitationIsNoOp ==
    (last_op.op = "suggestion"
        /\ ~HasRiskThenCitation(Span(prev_markdown, last_op.index)))
    => markdown_content = prev_markdown

\* C4: no clause span carries a Citation fragment without a Risk tag pair, none
\* carries a Suggestion fragment without a Citation fragment, and none carries
\* more than one Risk tag pair, whatever operations were applied in whatever
\* order on whatever clause ids.
C4_LayersMonotonic ==
    \A k \in 1..Len(clauses) :
        LET span == Span(Buffer, k)
        IN /\ HasCitation(span) => HasRisk(span)
           /\ HasSuggestion(span) => HasCitation(span)
           /\ Count(span, RiskTagClass) <= 2

C4_Witness ==
    /\ node = "operations"
    /\ \E k \in 1..Len(clauses) :
        /\ HasRisk(Span(Buffer, k)) /\ HasCitation(Span(Buffer, k))
        /\ HasSuggestion(Span(Buffer, k))
    /\ \E k \in 1..Len(clauses) : ~HasRisk(Span(Buffer, k))

\* C5: applying the same Risk, Citation or Suggestion operation twice in a row
\* gives the buffer that applying it once gives.
C5_Idempotent ==
    Rendered => \A clause_id \in DocIds :
        /\ \A ra \in RiskAssessments(clause_id) :
            LET once == TagMarkdown(Buffer, clause_id, ra.risk_level, HasIssues(ra))
            IN TagMarkdown(once, clause_id, ra.risk_level, HasIssues(ra)) = once
        /\ \A citation \in Citations(clause_id) :
            LET once == InsertCitationInMarkdown(Buffer, clause_id, citation)
            IN InsertCitationInMarkdown(once, clause_id, citation) = once
        /\ \A suggested_text \in Suggestions(clause_id) :
            LET once == InsertSuggestionInMarkdown(Buffer, clause_id, suggested_text)
            IN InsertSuggestionInMarkdown(once, clause_id, suggested_text) = once

\* C6: operations on two distinct clauses commute.  Stated for the operations of
\* one stage at the start of that stage, where every clause has received the
\* layers of the earlier stages, so each clause's own order is respected.
C6_DistinctClausesCommute ==
    (Rendered /\ i = 1) => \A x \in DocIds : \A y \in DocIds \ {x} :
        CASE node = "detect_risks" ->
               \A rx \in RiskAssessments(x), ry \in RiskAssessments(y) :
                   TagMarkdown(TagMarkdown(Buffer, x, rx.risk_level, HasIssues(rx)),
                               y, ry.risk_level, HasIssues(ry))
                   = TagMarkdown(TagMarkdown(Buffer, y, ry.risk_level, HasIssues(ry)),
                                 x, rx.risk_level, HasIssues(rx))
          [] node = "retrieve_legal" ->
               \A cx \in Citations(x), cy \in Citations(y) :
                   InsertCitationInMarkdown(InsertCitationInMarkdown(Buffer, x, cx), y, cy)
                   = InsertCitationInMarkdown(InsertCitationInMarkdown(Buffer, y, cy), x, cx)
          [] node = "generate_redlines" ->
               \A sx \in Suggestions(x), sy \in Suggestions(y) :
                   InsertSuggestionInMarkdown(InsertSuggestionInMarkdown(Buffer, x, sx), y, sy)
                   = InsertSuggestionInMarkdown(InsertSuggestionInMarkdown(Buffer, y, sy), x, sx)
          [] OTHER -> TRUE

\* C7: in a pipeline run every citation fragment starts right after the closing
\* marker of a risk tag and every suggestion fragment right after the closing
\* marker of a citation fragment.
C7_FragmentsFollowTheirAnchor ==
    Rendered => \A p \in 1..Len(Buffer) :
        /\ Opens(Buffer, p, {IPC}) => (p > 1 /\ Closes(Buffer, p - 1, RiskTagClass))
        /\ Opens(Buffer, p, {SG}) => (p > 1 /\ Closes(Buffer, p - 1, {IPC}))

\* The ordinal prefix generate_markdown gives a clause.
Prefix(clause_id) ==
    IF clause_id = "clause_preamble" THEN <<>> ELSE ClauseNum(clause_id) \o <<DOT>>

\* C8: the Risk operation for a clause with a level and at least one issue
\* makes one substitution: that clause's placeholder pair becomes the level's
\* tag pair (-hr- for High, -mr- for Medium, -lr- for Low) around the unchanged
\* content, and nothing else in the buffer changes.
C8_RiskTagsThePlaceholder ==
    (last_op.op = "risk" /\ last_op.issues # <<>>) =>
        LET k == last_op.index
            tag == CASE last_op.risk_level = "High" -> "-hr-"
                     [] last_op.risk_level = "Medium" -> "-mr-"
                     [] last_op.risk_level = "Low" -> "-lr-"
        IN /\ Span(markdown_content, k)
                = Prefix(clauses[k].clause_id) \o <<tag>> \o clauses[k].content
                  \o <<tag, NL>>
           /\ \A j \in 1..Len(clauses) \ {k} :
                Span(markdown_content, j) = Span(prev_markdown, j)

\* C9: with an empty issue list, whatever the level, the Risk operation leaves
\* the clause's content in place without placeholder and without risk tag, and
\* puts no risk tag into the buffer.
C9_EmptyIssuesStripPlaceholder ==
    (last_op.op = "risk" /\ last_op.issues = <<>>) =>
        LET k == last_op.index
        IN /\ Span(markdown_content, k)
                = Prefix(clauses[k].clause_id) \o clauses[k].content \o <<NL>>
           /\ Count(markdown_content, RiskTagClass) = Count(prev_markdown, RiskTagClass)

\* C8 and C9 do hold on the documents whose clause ids are all different.
UniqueIds == Cardinality(DocIds) = Len(clauses)
C8_WhenIdsUnique == UniqueIds => C8_RiskTagsThePlaceholder
C9_WhenIdsUnique == UniqueIds => C9_EmptyIssuesStripPlaceholder

\* C10: removing every citation fragment, every suggestion fragment and every
\* risk marker from the buffer left by the three stages gives back the header
\* and, per clause, its ordinal prefix and its original content.
RECURSIVE StripFragments(_, _)
StripFragments(s, marker) ==
    LET m == ReSearch(s, <<Lit(<<marker>>), Lit(<<marker>>)>>, 1)
    IN IF m.start = 0 THEN s
       ELSE StripFragments(SubSeq(s, 1, m.start - 1) \o SubSeq(s, m.end + 1, Len(s)), marker)

IsNotRiskTag(t) == t \notin RiskTagClass
StripLayers(s) == SelectSeq(StripFragments(StripFragments(s, SG), IPC), IsNotRiskTag)

RECURSIVE PlainClauses(_, _)
PlainClauses(cl, k) ==
    IF k > Len(cl) THEN <<>>
    ELSE Prefix(cl[k].clause_id) \o cl[k].content \o <<NL>> \o PlainClauses(cl, k + 1)

C10_StripRoundTrip ==
    node = "generate_summary" =>
        StripLayers(markdown_file) = MarkdownHeader \o PlainClauses(clauses, 1)

C10_Witness ==
    /\ node = "generate_summary"
    /\ Len(clauses) = MaxClauses
    /\ \A k \in 1..Len(clauses) :
        /\ HasRisk(Span(markdown_file, k)) /\ HasCitation(Span(markdown_file, k))
        /\ HasSuggestion(Span(markdown_file, k))

\* C11: no two clauses produced by the segmenter share a clause id, also when
\* the same ordinal followed by ". " occurs more than once in the text.
C11_ClauseIdsUnique ==
    node = "converted" =>
        \A j \in 1..Len(clauses) : \A k \in 1..Len(clauses) :
            j # k => clauses[j].clause_id # clauses[k].clause_id

\* The clause ids the segmenter can produce from the page texts.
SegmentIds ==
    {"clause_preamble"} \cup {"clause_" \o Join(n) : n \in SeqsUpTo(Digits, 2) \ {<<>>}}
IsPlaceholder(t) ==
    t \in {OpenPlaceholder(id) : id \in SegmentIds} \cup {ClosePlaceholder(id) : id \in SegmentIds}

RECURSIVE PlaceholderPairs(_, _)
PlaceholderPairs(cl, k) ==
    IF k > Len(cl) THEN <<>>
    ELSE <<OpenPlaceholder(cl[k].clause_id), ClosePlaceholder(cl[k].clause_id)>>
         \o PlaceholderPairs(cl, k + 1)

\* C12: the initial render of n clauses holds 2*n placeholder markers: in clause
\* order, the opening and then the closing marker of each clause's id, and no
\* other placeholder marker.
C12_TwoPlaceholdersPerClause ==
    node = "converted" =>
        /\ Len(SelectSeq(markdown_file, IsPlaceholder)) = 2 * Len(clauses)
        /\ SelectSeq(markdown_file, IsPlaceholder) = PlaceholderPairs(clauses, 1)

C12_Witness ==
    /\ node = "converted"
    /\ Len(clauses) = 2
    /\ clauses[1].clause_id = "clause_preamble"
    /\ Len(SelectSeq(markdown_file, IsPlaceholder)) = 4

\* C17: when the wrapped call raises an error that is not a rate limit error,
\* the wrapper makes no further call, does not sleep for it, and raises that
\* same error; on the first call that is one call in total and no sleep.
C17_OtherErrorsPropagateAtOnce ==
    \A k \in 1..Len(responses) :
        ~(responses[k].code_429 \/ responses[k].quota \/ responses[k].rate_limit) =>
            /\ k = Len(responses)
            /\ calls = k
            /\ Len(sleeps) = k - 1
            /\ result = [status |-> "raised", exception |-> responses[k]]

C17_Witness ==
    /\ result.status = "raised"
    /\ result.exception.msg = "Invalid json output"
    /\ calls = 1
    /\ sleeps = <<>>

RECURSIVE Pow(_, _)
Pow(b, n) == IF n = 0 THEN 1 ELSE b * Pow(b, n - 1)

\* Every call so far failed with a rate limit error that suggests no wait.
OnlyPlainRateLimits ==
    /\ responses # <<>>
    /\ calls = Len(responses)
    /\ \A k \in 1..Len(responses) :
        /\ responses[k].code_429 \/ responses[k].quota \/ responses[k].rate_limit
        /\ responses[k].retry_in = 0

\* C18: when every call fails with a rate limit error without suggested wait,
\* the wait before the k-th retry is min(initial_delay * exponential_base^(k-1),
\* max_delay), and the wrapper raises the last error after max_retries + 1 calls
\* and max_retries waits.
C18_BoundedExponentialBackoff ==
    OnlyPlainRateLimits =>
        /\ \A k \in 1..Len(sleeps) :
            sleeps[k] = Min2(config.initial_delay * Pow(config.exponential_base, k - 1),
                             config.max_delay)
        /\ calls <= config.max_retries + 1
        /\ result.status = (IF calls = config.max_retries + 1 THEN "raised" ELSE "running")
        /\ result.status = "raised" =>
            /\ Len(sleeps) = config.max_retries
            /\ result.exception = responses[Len(responses)]

C18_Witness ==
    /\ OnlyPlainRateLimits
    /\ config = DefaultConfig
    /\ result.status = "raised"
    /\ calls = 4
    /\ sleeps = <<2, 4, 8>>

\* C13: in every run the nodes are entered in the order of the chain
\* extract+segment, classify, score+risk-tag, cite, redline-suggest, summarize:
\* none twice, none out of order, each after its predecessor has returned.
C13_StagesInChainOrder ==
    /\ Len(executed) <= Len(Chain)
    /\ \A k \in 1..Len(executed) : executed[k] = Chain[k]
    /\ node \in {Chain[k] : k \in 1..Len(Chain)} =>
          Len(executed) \in {k \in 0..Len(Chain) : k < Len(Chain) /\ Chain[k + 1] = node}
                            \cup {k \in 1..Len(Chain) : Chain[k] = node /\ i > 1}

C13_Witness ==
    /\ node = "END"
    /\ executed = Chain
    /\ Len(clauses) = MaxClauses
    /\ error = "None"

\* C14: once a node has recorded a failure in the error field, no later node
\* of the chain is executed.
C14_FailureHaltsTheChain ==
    first_error # "None" =>
        /\ executed # <<>>
        /\ ErrorOf(executed[Len(executed)]) = first_error

\* C15: when one or more nodes fail in a run, the error field of the final
\* state is the error of the first node that failed.
C15_FirstErrorIsKept ==
    (node = "END" /\ first_error # "None") => error = first_error

\* The node before this one recorded its error and this one has not begun: the
\* agent of the node before had been through its clauses and could not save.
JustFailedAtSave ==
    /\ clauses # <<>>
    /\ i = 1
    /\ \E n \in {"detect_risks", "retrieve_legal", "generate_redlines"} :
        /\ node = NextNode(n)
        /\ executed[Len(executed)] = n
        /\ error = ErrorOf(n)

\* C16: after a stage that failed having applied layer mutations, the persisted
\* buffer holds the mutations the stage had applied before it failed.
C16_FailedStageKeepsMutations ==
    JustFailedAtSave => markdown_file = markdown_content

\* C19: a run in which an oracle call for a clause ended with a rate limit
\* error after the last permitted attempt ends with a stage error recorded.
C19_RateLimitExhaustionIsFatal ==
    (node = "END" /\ \E k \in 1..Len(log) :
                        /\ log[k].e = RateLimitExhausted
                        /\ log[k].agent \in {"risk_detector", "legal_retriever"})
    => error # "None"

Unresolved(response) ==
    \/ response.raises # ""
    \/ "found" \notin DOMAIN response.value
    \/ response.value["found"] = "false"
    \/ "section" \notin DOMAIN response.value
C21_UnresolvedCitationIsNotFound ==
    (last_op.op = "citation" /\ oracle # NoOracle /\ Unresolved(oracle)) =>
        \/ markdown_content = prev_markdown
        \/ \E pos \in 1..Len(prev_markdown) :
            markdown_content = InsertAt(prev_markdown, pos, <<IPC, "not found", IPC>>)

\* C22: a batch run that has ended exits non-zero when the input document is
\* missing or invalid, when the oracle credentials are missing, or when a
\* stage recorded a fatal error; every run that exits zero has persisted the
\* structured report.
C22_BatchExitContract ==
    exit_code # -1 =>
        /\ (~ArgsAccepted \/ error # "None") => exit_code # 0
        /\ exit_code = 0 => (Len(report) > 0 /\ report[1] = "risk_report")

\* The ten keyword categories with the deltas the specification gives them.
Categories ==
    {"unilateral_language", "unlimited_liability", "ip_no_compensation",
     "broad_indemnity", "vague_language", "balanced_language",
     "indian_warning_signs", "payment_red_flags", "termination_red_flags",
     "indian_protective_terms"}
Decreasing == {"balanced_language", "indian_protective_terms"}
Increasing == Categories \ Decreasing
Delta(category) ==
    CASE category = "unilateral_language" -> 10
      [] category = "unlimited_liability" -> 15
      [] category = "ip_no_compensation" -> 10
      [] category = "broad_indemnity" -> 10
      [] category = "vague_language" -> 5
      [] category = "balanced_language" -> -5
      [] category = "indian_warning_signs" -> 8
      [] category = "payment_red_flags" -> 7
      [] category = "termination_red_flags" -> 8
      [] category = "indian_protective_terms" -> -3
Keywords(category) ==
    CASE category = "unilateral_language" -> UNILATERAL_KEYWORDS
      [] category = "unlimited_liability" -> UNLIMITED_LIABILITY_KEYWORDS
      [] category = "ip_no_compensation" -> IP_NO_COMPENSATION_KEYWORDS
      [] category = "broad_indemnity" -> BROAD_INDEMNITY_KEYWORDS
      [] category = "vague_language" -> VAGUE_PHRASES
      [] category = "balanced_language" -> BALANCED_LANGUAGE
      [] category = "indian_warning_signs" -> INDIAN_WARNING_SIGNS
      [] category = "payment_red_flags" -> PAYMENT_RED_FLAGS
      [] category = "termination_red_flags" -> TERMINATION_RED_FLAGS
      [] category = "indian_protective_terms" -> INDIAN_PROTECTIVE_TERMS
\* The categories of which some keyword occurs in the text, whatever its case.
MatchedCategories ==
    [content \in ClauseContents |->
        {category \in Categories :
            \E k \in 1..Len(Keywords(category)) :
                Contains(Lower(content), Keywords(category)[k])}]
RECURSIVE SumDelta(_)
SumDelta(set) ==
    IF set = {} THEN 0
    ELSE LET x == CHOOSE y \in set : TRUE
         IN Delta(x) + SumDelta(set \ {x})
UnclampedSum ==
    [content \in ClauseContents, level \in RiskLevel |->
        (CASE level = "High" -> 70 [] level = "Medium" -> 40 [] level = "Low" -> 10)
        + SumDelta(MatchedCategories[content])]

\* C23: the final score of every scored clause is clamp(base + sum of the
\* deltas of the matched categories, 0, 100), with base 70 / 40 / 10 and the
\* ten deltas of the specification; a sum above 100 is reported as 100.
C23_ScoreIsClampedSum ==
    \A k \in 1..Len(scored) :
        LET sum == UnclampedSum[scored[k].content, scored[k].level]
            final == scored[k].score.final_risk_score
        IN /\ sum > 100 => final = 100
           /\ sum < 0 => final = 0
           /\ sum \in 0..100 => final = sum

C23_Witness ==
    \E j, k \in 1..Len(scored) :
        /\ UnclampedSum[scored[j].content, scored[j].level] > 100
        /\ scored[j].score.final_risk_score = 100
        /\ scored[k].level = "Low"
        /\ scored[k].score.final_risk_score = 2

C25_ScoreIsMonotonic ==
    \A j, k \in 1..Len(scored) :
        LET a == MatchedCategories[scored[j].content]
            b == MatchedCategories[scored[k].content]
        IN (scored[j].level = scored[k].level /\ a \subseteq b) =>
            /\ (b \ a) \subseteq Increasing =>
                  scored[k].score.final_risk_score >= scored[j].score.final_risk_score
            /\ (b \ a) \subseteq Decreasing =>
                  scored[k].score.final_risk_score <= scored[j].score.final_risk_score

C25_Witness ==
    /\ Len(scored) = 2
    /\ scored[1].level = scored[2].level
    /\ MatchedCategories[scored[1].content] = {"unilateral_language"}
    /\ MatchedCategories[scored[2].content] =
          {"unilateral_language", "termination_red_flags"}
    /\ scored[2].score.final_risk_score = scored[1].score.final_risk_score + 8

\* C26: the text "Company may terminate this agreement at its sole discretion
\* without notice" at level High scores 88: base 70, the unilateral-language
\* modifier (+10) and the termination-red-flags modifier (+8).
C26_ExampleScores88 ==
    \A k \in 1..Len(scored) :
        (/\ scored[k].content =
              "Company may terminate this agreement at its sole discretion without notice"
         /\ scored[k].level = "High") =>
            /\ scored[k].score.final_risk_score = 88
            /\ scored[k].score.base_score = 70
            /\ [m \in 1..Len(scored[k].score.modifiers) |->
                   <<scored[k].score.modifiers[m].modifier_type,
                     scored[k].score.modifiers[m].value>>]
                 = <<<<"unilateral_language", 10>>, <<"termination_red_flags", 8>>>>

\* The clauses of a summarized document by their own risk level.
ClausesAt(levels) == {k \in 1..Len(scored) : scored[k].level \in levels}
RECURSIVE SumOfScores(_)
SumOfScores(indices) ==
    IF indices = {} THEN 0
    ELSE LET k == CHOOSE j \in indices : TRUE
         IN scored[k].score.final_risk_score + SumOfScores(indices \ {k})

\* C27: the overall score of a summary is clamp(round(0.6*highPct +
\* 0.3*mediumPct + 0.2*avgRiskyScore), 0, 100): the integer nearest to the
\* weighted sum, not its whole part.
C27_OverallScoreIsRounded ==
    summary.status = "returned" =>
        LET pct_den == IF summary.total_count > 0 THEN summary.total_count ELSE 1
            avg_den == IF summary.risky_len > 0 THEN summary.risky_len ELSE 1
            num == (60 * summary.high_count + 30 * summary.medium_count) * 5 * avg_den
                   + summary.risky_sum * pct_den
            den == 5 * pct_den * avg_den
        IN \E rounded \in 0..200 :
            /\ 2 * (rounded * den - num) <= den
            /\ 2 * (num - rounded * den) <= den
            /\ summary.overall_risk_score = Min2(100, rounded)

\* C28: the risky average is the mean of the final scores of exactly the
\* High and Medium clauses, so that no Low clause bears on it, and a document
\* of Low clauses only has risky average 0 and overall score 0.
C28_LowClausesAreExcluded ==
    summary.status = "returned" =>
        /\ summary.risky_len = Cardinality(ClausesAt({"High", "Medium"}))
        /\ summary.risky_sum = SumOfScores(ClausesAt({"High", "Medium"}))
        /\ ClausesAt({"High", "Medium"}) = {} =>
             (summary.risky_sum = 0 /\ summary.overall_risk_score = 0)

\* C28 does hold on the risk outputs whose clause ids are all different.
ScoredIdsUnique ==
    \A j, k \in 1..Len(scored) : j # k => scored[j].clause_id # scored[k].clause_id
C28_WhenIdsUnique == ScoredIdsUnique => C28_LowClausesAreExcluded

\* C29: the most critical clause of a summary is the first clause, in clause
\* order, among those with the maximum final score.
C29_MostCriticalIsFirstMaximum ==
    summary.status = "returned" =>
        \E k \in 1..Len(scored) :
            /\ \A j \in 1..Len(scored) :
                  scored[j].score.final_risk_score <= scored[k].score.final_risk_score
            /\ \A j \in 1..(k - 1) :
                  scored[j].score.final_risk_score < scored[k].score.final_risk_score
            /\ summary.most_critical_clause = scored[k].clause_id

C29_Witness ==
    /\ summary.status = "returned"
    /\ Len(scored) = 2
    /\ scored[1].score.final_risk_score = scored[2].score.final_risk_score
    /\ scored[1].clause_id # scored[2].clause_id
    /\ summary.most_critical_clause = scored[1].clause_id

\* C30: the aggregation of no clause scores raises and returns no summary,
\* and the summary stage then records its error and does not complete; a
\* summary is returned only for a document with clauses.
C30_NoClausesIsAFailure ==
    node = "END" =>
        /\ scored = <<>> =>
             /\ summary.status = "raised"
             /\ error = "Summary generation failed"
             /\ stage # "completed"
        /\ summary.status = "returned" => (scored # <<>> /\ error = "None")

C30_Witness ==
    /\ node = "END"
    /\ scored = <<>>
    /\ summary.status = "raised"
    /\ error = "Summary generation failed"

StateRiskOutputs == IF node = "detect_risks" THEN <<>> ELSE risk_outputs

\* C32: a step in which a node records its error leaves the stage label, the
\* clause list, the classifications and the risk outputs of the state as they
\* were: the error is the only field of the state the failing node changes.
C32_FailingStageChangesOnlyError ==
    [][error' # error =>
          /\ stage' = stage
          /\ clauses' = clauses
          /\ classified' = classified
          /\ StateRiskOutputs' = StateRiskOutputs]_vars

C32_Witness ==
    /\ node = "retrieve_legal"
    /\ error = "Risk detection failed"
    /\ stage = "clauses_classified"
    /\ Len(clauses) = MaxClauses
    /\ Len(classified) = Len(clauses)
    /\ risk_outputs = <<>>

\* C33: a run that ends with the stage "completed" ends without an error.
C33_CompletedMeansNoError ==
    (node = "END" /\ stage = "completed") => error = "None"

\* C34: whatever the wrapped call returns or raises, it is invoked at most
\* max_retries + 1 times, the wrapper sleeps at most max_retries times and
\* never longer than max_delay at a time, also when the error suggests a
\* longer wait, and once the wrapper has ended, by the call's first success or
\* by raising, the call is not invoked again.
C34_RetryStaysWithinBounds ==
    /\ [](/\ calls <= config.max_retries + 1
          /\ Len(sleeps) <= config.max_retries
          /\ \A k \in 1..Len(sleeps) : sleeps[k] <= config.max_delay)
    /\ [][result.status # "running" => calls' = calls]_vars

C34_Witness ==
    /\ result.status = "returned"
    /\ calls = config.max_retries + 1
    /\ Len(sleeps) = config.max_retries
    /\ \E k \in 1..Len(sleeps) :
          /\ responses[k].retry_in > config.max_delay
          /\ sleeps[k] = config.max_delay

\* C35: once the risk stage has been through all clauses and has stored its
\* results, the buffer holds no placeholder marker, whether a clause was
\* tagged or passed through untagged, for no issues or for a failed oracle call.
C35_NoPlaceholderAfterRiskStage ==
    \* the buffer the loop of the risk stage ends with, saved or not
    /\ (node = "retrieve_legal" /\ i = 1 /\ clauses # <<>>)
          => SelectSeq(markdown_content, IsPlaceholder) = <<>>
    \* the file, from the return of the risk stage on
    /\ (node # "detect_risks" /\ risk_outputs # <<>>)
          => SelectSeq(markdown_file, IsPlaceholder) = <<>>

C35_Witness ==
    /\ node = "retrieve_legal"
    /\ stage = "risks_detected"
    /\ Len(clauses) = MaxClauses
    /\ \E k \in 1..Len(log) : log[k].agent = "risk_detector"
    /\ Count(markdown_file, RiskTagClass) = 2
    /\ SelectSeq(markdown_file, IsPlaceholder) = <<>>

\* C36: after the citation stage the citations list holds a record for a
\* clause if and only if the buffer holds a citation fragment in the span of
\* that clause; a clause the risk stage left untagged has neither.
C36_CitationsAgreeWithBuffer ==
    (node = "generate_redlines" /\ i = 1) =>
        \A k \in 1..Len(clauses) :
            (\E r \in 1..Len(CitationRecords) : CitationRecords[r] = clauses[k].clause_id)
                <=> HasCitation(Span(markdown_file, k))

\* C37: for every text and level the sum of the base score and the deltas is
\* at least 2, so every final score is in 2..100 and the lower clamp never
\* applies; the final score of a clause at Low is at most 83.
C37_LowerClampNeverBinds ==
    \A k \in 1..Len(scored) :
        /\ scored[k].score.base_score + SumValues(scored[k].score.modifiers) >= 2
        /\ scored[k].score.final_risk_score \in 2..100
        /\ scored[k].level = "Low" => scored[k].score.final_risk_score <= 83

C37_Witness ==
    /\ Len(scored) = 2
    /\ scored[1].level = "Low" /\ scored[1].score.final_risk_score = 2
    /\ Len(scored[1].score.modifiers) = 2
    /\ scored[2].level = "Low" /\ scored[2].score.final_risk_score = 83
    /\ Len(scored[2].score.modifiers) = 8

\* C38: the weighted sum 0.6*highPct + 0.3*mediumPct + 0.2*avgRiskyScore of a
\* summary is at most 80, so the overall score is at most 80 and the upper
\* clamp at 100 never applies.
C38_OverallScoreAtMost80 ==
    summary.status = "returned" =>
        LET pct_den == IF summary.total_count > 0 THEN summary.total_count ELSE 1
            avg_den == IF summary.risky_len > 0 THEN summary.risky_len ELSE 1
            num == (60 * summary.high_count + 30 * summary.medium_count) * 5 * avg_den
                   + summary.risky_sum * pct_den
            den == 5 * pct_den * avg_den
        IN /\ num <= 80 * den
           /\ summary.overall_risk_score <= 80

C38_Witness ==
    /\ summary.status = "returned"
    /\ Len(scored) = MaxScored
    /\ summary.high_count = summary.total_count
    /\ summary.risky_sum = 100 * summary.risky_len
    /\ summary.overall_risk_score = 80

====
